---- MODULE Spec2Model ----
(***************************************************************************)
(* UBIFS tree node cache (fs/ubifs/tnc.c) and journal replay               *)
(* (fs/ubifs/replay.c) as a state machine.                                 *)
(*                                                                         *)
(* Znodes live in an arena `zn` (id -> znode); a pointer is an id and NULL *)
(* is 0.  A znode's zbranch array is the sequence of its first child_cnt   *)
(* slots, so child_cnt is the length of that sequence; C slot n is element *)
(* n + 1.  Every C function that changes state is an operator from a state *)
(* record `st` to a result record that carries the new `st`.               *)
(***************************************************************************)
EXTENDS Integers, Sequences, FiniteSets, TLC

VARIABLES
    znodes,     \* the znodes in memory: id -> znode
    zroot,      \* c->zroot
    old_idx,    \* c->old_idx as a set of <<lnum, offs>>
    oops,       \* a thread died on a NULL pointer inside the TNC
    dirt,       \* what ubifs_add_dirt has added to the dirty space of each LEB
    dirty_zn_cnt,   \* c->dirty_zn_cnt
    clean_zn_cnt,   \* c->clean_zn_cnt
    map,        \* the reference map <<key, name>> -> position
    last,       \* the last operation, its arguments and what it returned
    ops,        \* number of operations performed
    replay,     \* the journal replay: buds to scan, c->replay_tree, progress
    tnc_mutex,  \* c->tnc_mutex: the thread that holds it, 0 when it is free
    thr         \* the callers of the TNC: where each is in its operation

vars == <<znodes, zroot, old_idx, oops, dirt, dirty_zn_cnt, clean_zn_cnt, map, last, ops,
          replay, tnc_mutex, thr>>

(* sequencing: the value v of one C statement, bound for the statements   *)
(* that follow it                                                          *)
Let(v, F(_)) == F(v)

----------------------------------------------------------------------------
(* Constants of the code *)

NULL == 0

NAME_LESS == 0
NAME_MATCHES == 1
NAME_GREATER == 2
NOT_ON_MEDIA == 3

ENOENT == 2
ENOMEM == 12
EINVAL == 22

UBIFS_INO_KEY == 0
UBIFS_DATA_KEY == 1
UBIFS_DENT_KEY == 2
UBIFS_XENT_KEY == 3
UBIFS_TRUN_KEY == 4

UBIFS_MAX_LEVELS == 512

(* Geometry of the modelled volume: c->fanout, c->main_first, c->leb_cnt,  *)
(* c->leb_size.                                                            *)
fanout == 3
Geom ==
    [main_first |-> 4, leb_cnt |-> 8, leb_size |-> 4096, max_inode_sz |-> 65536,
     jhead_cnt |-> 3, min_io_size |-> 8, log_lebs |-> 2, cmt_no |-> 1]

----------------------------------------------------------------------------
(* Key algebra: a key is <<inode number, type, block or hash>> *)

key_ino(k) == k[1]
key_type(k) == k[2]
key_block(k) == k[3]

keys_cmp(a, b) ==
    IF a[1] < b[1] THEN -1
    ELSE IF a[1] > b[1] THEN 1
    ELSE IF a[2] < b[2] THEN -1
    ELSE IF a[2] > b[2] THEN 1
    ELSE IF a[3] < b[3] THEN -1
    ELSE IF a[3] > b[3] THEN 1
    ELSE 0

is_hash_key(k) == key_type(k) \in {UBIFS_DENT_KEY, UBIFS_XENT_KEY}

MaxDisc == 7
lowest_ino_key(inum) == <<inum, UBIFS_INO_KEY, 0>>
highest_ino_key(inum) == <<inum, 7, MaxDisc>>
lowest_xent_key(inum) == <<inum, UBIFS_XENT_KEY, 0>>

----------------------------------------------------------------------------
(* The media.  A leaf node is [lnum, offs, len, key, name, inum]; `name`   *)
(* and `inum` are the payload of a directory / extended attribute entry    *)
(* (inum = 0 is a deletion entry), a name is a sequence of bytes.          *)

UBIFS_INO_NODE_SZ == 160
UBIFS_DATA_NODE_SZ == 48
UBIFS_DENT_NODE_SZ == 56
UBIFS_IDX_NODE_SZ == 28
UBIFS_TRUN_NODE_SZ == 56
UBIFS_BLOCK_SIZE == 4096
UBIFS_MAX_NLEN == 255
UBIFS_ITYPES_CNT == 7

Leaf(lnum, offs, len, key, name, inum) ==
    [lnum |-> lnum, offs |-> offs, len |-> len, key |-> key, name |-> name,
     inum |-> inum, sqnum |-> lnum * 16 + offs \div 256,
     nlink |-> 1, old_size |-> 0, new_size |-> 0]

Ino(lnum, offs, inum) ==
    Leaf(lnum, offs, UBIFS_INO_NODE_SZ, <<inum, UBIFS_INO_KEY, 0>>, <<>>, 0)
Data(lnum, offs, inum, blk) ==
    Leaf(lnum, offs, UBIFS_DATA_NODE_SZ + 16, <<inum, UBIFS_DATA_KEY, blk>>, <<>>, 0)
Dent(lnum, offs, dir, hash, name, inum) ==
    Leaf(lnum, offs, UBIFS_DENT_NODE_SZ + Len(name) + 1,
         <<dir, UBIFS_DENT_KEY, hash>>, name, inum)
Trun(lnum, offs, inum, old_size, new_size) ==
    [Leaf(lnum, offs, UBIFS_TRUN_NODE_SZ, <<inum, UBIFS_TRUN_KEY, 0>>, <<>>, 0)
        EXCEPT !.old_size = old_size, !.new_size = new_size]
Xent(lnum, offs, host, hash, name, inum) ==
    Leaf(lnum, offs, UBIFS_DENT_NODE_SZ + Len(name) + 1,
         <<host, UBIFS_XENT_KEY, hash>>, name, inum)

(* Leaf nodes written to the main area.  LEB 5 holds inode 1 (a directory  *)
(* with data, an entry whose name hashes to 4, three whose names hash to 5 *)
(* and one extended attribute entry), inode 2 and the extended attribute   *)
(* inode 3; LEB 6 holds the copies garbage collection made of two of them. *)
N_I1 == Ino(5, 0, 1)
N_D10 == Data(5, 256, 1, 0)
N_D11 == Data(5, 512, 1, 1)
N_D12 == Data(5, 768, 1, 2)
N_D13 == Data(5, 1024, 1, 3)
N_E1 == Dent(5, 1280, 1, 5, <<1>>, 2)
N_E11 == Dent(5, 1536, 1, 5, <<1, 1>>, 2)
N_E2 == Dent(5, 1792, 1, 5, <<2>>, 2)
N_X7 == Xent(5, 2048, 1, 3, <<7>>, 3)
N_I2 == Ino(5, 2304, 2)
N_D20 == Data(5, 2560, 2, 0)
N_I3 == Ino(5, 2816, 3)
N_E3 == Dent(5, 3072, 1, 4, <<3>>, 2)
M_D10 == Data(6, 256, 1, 0)
M_E1 == Dent(6, 1280, 1, 5, <<1>>, 2)

Media ==
    {N_I1, N_D10, N_D11, N_D12, N_D13, N_E1, N_E11, N_E2, N_X7, N_I2, N_D20,
     N_I3, N_E3, M_D10, M_E1}

NoNode == Leaf(0, 0, 0, <<0, 0, 0>>, <<>>, 0)

(* Nodes written to the journal since the last commit, in write order:    *)
(* entry 'a' (hash 5) of directory 1 is added, entry 'b' (hash 5) is       *)
(* added, 'a' is deleted, entry 'c' (hash 4) is added, block 0 of          *)
(* inode 1 is rewritten, and inode 1 is truncated from four blocks to one. *)
(* Write k carries sqnum JournalSqnum + k and lies at offset               *)
(* BudStart + 64 * k of the bud of the journal head that wrote it.         *)
MaxWrites == 6
BudLebs == {6, 7}
BudStart == 2048
JournalSqnum == 210
RefSqnum(lnum) == 200 + lnum

Written(node, k) == [node EXCEPT !.sqnum = JournalSqnum + k]

Wr(k, lnum) ==
    LET offs == BudStart + 64 * k
    IN  CASE k = 1 -> Written(Dent(lnum, offs, 1, 5, <<1>>, 2), k)
          [] k = 2 -> Written(Dent(lnum, offs, 1, 5, <<2>>, 2), k)
          [] k = 3 -> Written(Dent(lnum, offs, 1, 5, <<1>>, 0), k)
          [] k = 4 -> Written(Dent(lnum, offs, 1, 4, <<3>>, 2), k)
          [] k = 5 -> Written(Data(lnum, offs, 1, 0), k)
          [] OTHER -> Written(Trun(lnum, offs, 1, 4 * UBIFS_BLOCK_SIZE, UBIFS_BLOCK_SIZE), k)

JournalFlash == {Wr(k, lnum) : k \in 1..MaxWrites, lnum \in BudLebs}

(* Entries a replay may add to a directory whose older entries garbage     *)
(* collection has moved or reclaimed: the i-th entry applied has sqnum     *)
(* JournalSqnum + MaxWrites + i and lies in bud LEB 7 behind the writes    *)
(* above.                                                                  *)
ReplayNames == <<(<<1>>), (<<1, 1>>), (<<1, 2>>), (<<2>>)>>

ReplayDent(i, j) ==
    [Dent(7, BudStart + 64 * (MaxWrites + 1) + 256 * (i - 1) + 64 * (j - 1),
          1, 5, ReplayNames[j], 2)
        EXCEPT !.sqnum = JournalSqnum + MaxWrites + i]

MaxReplayed == 3
ReplayDents == {ReplayDent(i, j) : i \in 1..MaxReplayed, j \in 1..Len(ReplayNames)}

(* The data nodes of a file written block after block: MaxLeaves full     *)
(* leaves of them, behind the nodes of LEB 5 for inode 1 and between the   *)
(* two copies in LEB 6 for inode 10.                                       *)
MaxLeaves == 3
MaxAppend == MaxLeaves * fanout
AppendInos == {1, 10}
AppendNode(inum, blk) ==
    Data(IF inum = 1 THEN 5 ELSE 6, (IF inum = 1 THEN 3200 ELSE 320) + 64 * blk, inum, blk)
AppendNodes == {AppendNode(inum, blk) : inum \in AppendInos, blk \in 0..(MaxAppend - 1)}

FlashNodes == Media \cup JournalFlash \cup ReplayDents \cup AppendNodes

FlashNode(lnum, offs) ==
    IF \E m \in FlashNodes : m.lnum = lnum /\ m.offs = offs
    THEN CHOOSE m \in FlashNodes : m.lnum = lnum /\ m.offs = offs
    ELSE NoNode

(* Index nodes of the last commit, in the index head LEB 4: each is        *)
(* [lnum, offs, len, level, branches], a branch being                      *)
(* [key, lnum, offs, len].                                                 *)
Br(key, lnum, offs, len) == [key |-> key, lnum |-> lnum, offs |-> offs, len |-> len]
BrOf(m) == Br(m.key, m.lnum, m.offs, m.len)
IdxLen(cnt) == UBIFS_IDX_NODE_SZ + cnt * 20

(* The index nodes in LEB 4: a two-level index with room in its leaves,    *)
(* an index that is a single leaf, and a two-level index whose znodes are  *)
(* all full.                                                               *)
IdxLeafA ==
    [lnum |-> 4, offs |-> 0, len |-> IdxLen(2), level |-> 0,
     branches |-> <<BrOf(N_D10), BrOf(N_D11)>>]
IdxLeafB ==
    [lnum |-> 4, offs |-> 128, len |-> IdxLen(2), level |-> 0,
     branches |-> <<BrOf(N_E3), BrOf(N_E2)>>]
IdxRoot ==
    [lnum |-> 4, offs |-> 256, len |-> IdxLen(2), level |-> 1,
     branches |-> <<Br(N_D10.key, 4, 0, IdxLen(2)), Br(N_E3.key, 4, 128, IdxLen(2))>>]

IdxSingle ==
    [lnum |-> 4, offs |-> 384, len |-> IdxLen(1), level |-> 0,
     branches |-> <<BrOf(N_I1)>>]

IdxFull1 ==
    [lnum |-> 4, offs |-> 512, len |-> IdxLen(3), level |-> 0,
     branches |-> <<BrOf(N_I1), BrOf(N_D10), BrOf(N_D11)>>]
IdxFull2 ==
    [lnum |-> 4, offs |-> 640, len |-> IdxLen(3), level |-> 0,
     branches |-> <<BrOf(N_D12), BrOf(N_E1), BrOf(N_E2)>>]
IdxFull3 ==
    [lnum |-> 4, offs |-> 768, len |-> IdxLen(3), level |-> 0,
     branches |-> <<BrOf(N_X7), BrOf(N_I2), BrOf(N_D20)>>]
IdxFull ==
    [lnum |-> 4, offs |-> 896, len |-> IdxLen(3), level |-> 1,
     branches |-> <<Br(N_I1.key, 4, 512, IdxLen(3)), Br(N_D12.key, 4, 640, IdxLen(3)),
                    Br(N_X7.key, 4, 768, IdxLen(3))>>]

(* Indexes in which a subset d of the three entries of hash 5, numbered in *)
(* name order, is dangling: the branch refers to a position in LEB 7 that  *)
(* no longer holds the entry.  The run of equal keys spans two leaves.     *)
Gone(m) == [m EXCEPT !.lnum = 7]
RunEntry(d, i, m) == BrOf(IF i \in d THEN Gone(m) ELSE m)
RunBit(d, i) == IF i \in d THEN 1 ELSE 0

RunLeafL(d) ==
    [lnum |-> 4, offs |-> 1024 + 128 * RunBit(d, 1), len |-> IdxLen(3), level |-> 0,
     branches |-> <<BrOf(N_D10), BrOf(N_E3), RunEntry(d, 1, N_E1)>>]
RunLeafR(d) ==
    [lnum |-> 4, offs |-> 1280 + 128 * (2 * RunBit(d, 2) + RunBit(d, 3)),
     len |-> IdxLen(3), level |-> 0,
     branches |-> <<RunEntry(d, 2, N_E11), RunEntry(d, 3, N_E2), BrOf(N_X7)>>]
RunRoot(d) ==
    [lnum |-> 4, offs |-> 1792 + 128 * (4 * RunBit(d, 1) + 2 * RunBit(d, 2) + RunBit(d, 3)),
     len |-> IdxLen(2), level |-> 1,
     branches |-> <<Br(N_D10.key, 4, RunLeafL(d).offs, IdxLen(3)),
                    Br(N_E11.key, 4, RunLeafR(d).offs, IdxLen(3))>>]

RunRoots == {RunRoot(d) : d \in SUBSET {1, 2, 3}}

(* the index of a file system that holds nothing: a root with no branch *)
IdxEmpty == [lnum |-> 4, offs |-> 3072, len |-> IdxLen(0), level |-> 0, branches |-> <<>>]

(* a damaged index: the branch of block 0 of inode 1 refers to the          *)
(* position of the node of block 1                                         *)
IdxBadKey ==
    [lnum |-> 4, offs |-> 3200, len |-> IdxLen(1), level |-> 0,
     branches |-> <<Br(N_D10.key, N_D11.lnum, N_D11.offs, N_D11.len)>>]

FlashIdx ==
    {IdxLeafA, IdxLeafB, IdxRoot, IdxSingle, IdxFull1, IdxFull2, IdxFull3, IdxFull,
     IdxEmpty, IdxBadKey}
        \cup RunRoots
        \cup {RunLeafL(d) : d \in SUBSET {1, 2, 3}}
        \cup {RunLeafR(d) : d \in SUBSET {1, 2, 3}}

(* the index roots a mount may find in the master node *)
Roots == {IdxRoot, IdxSingle, IdxFull}

(* c->ranges[]: the lengths a leaf node of each key type may have *)
ranges(type) ==
    CASE type = UBIFS_INO_KEY ->
           [len |-> 0, min_len |-> UBIFS_INO_NODE_SZ, max_len |-> UBIFS_INO_NODE_SZ + 4096]
      [] type = UBIFS_DATA_KEY ->
           [len |-> 0, min_len |-> UBIFS_DATA_NODE_SZ, max_len |-> UBIFS_DATA_NODE_SZ + 4096]
      [] OTHER ->
           [len |-> 0, min_len |-> UBIFS_DENT_NODE_SZ + 1,
            max_len |-> UBIFS_DENT_NODE_SZ + UBIFS_MAX_NLEN + 1]

----------------------------------------------------------------------------
(* Znodes and zbranches *)

NoLeaf == NoNode

Zbranch(key, lnum, offs, len, znode) ==
    [key |-> key, lnum |-> lnum, offs |-> offs, len |-> len, znode |-> znode,
     leaf |-> NoLeaf]

(* a znode as kzalloc() returns it *)
ZeroZnode ==
    [level |-> 0, zbranch |-> <<>>, parent |-> NULL, iip |-> 0,
     dirty |-> FALSE, cow |-> FALSE, obsolete |-> FALSE, alt |-> FALSE,
     cnext |-> FALSE]

child_cnt(z) == Len(z.zbranch)

kzalloc(st) ==
    CHOOSE i \in 1..(Cardinality(DOMAIN st.zn) + 1) :
        i \notin DOMAIN st.zn /\ \A j \in 1..(i - 1) : j \in DOMAIN st.zn

PutZn(st, id, z) ==
    [st EXCEPT !.zn = [x \in (DOMAIN st.zn) \cup {id} |->
                          IF x = id THEN z ELSE st.zn[x]]]

kfree(st, id) ==
    [st EXCEPT !.zn = [x \in (DOMAIN st.zn) \ {id} |-> st.zn[x]]]

(* the zbranch a `struct ubifs_zbranch *` points to: slot n of znode zp,   *)
(* or c->zroot when zp is NULL                                             *)
ZbrAt(st, zp, n) == IF zp = NULL THEN st.zroot ELSE st.zn[zp].zbranch[n + 1]

SetZbr(st, zp, n, zbr) ==
    IF zp = NULL THEN [st EXCEPT !.zroot = zbr]
    ELSE [st EXCEPT !.zn[zp].zbranch[n + 1] = zbr]

ubifs_zn_dirty(z) == z.dirty

----------------------------------------------------------------------------
(* read_znode, load_znode, get_znode *)

BadBranch(level, zbr) ==
    \/ zbr.lnum < Geom.main_first
    \/ zbr.lnum >= Geom.leb_cnt
    \/ zbr.offs < 0
    \/ zbr.offs + zbr.len > Geom.leb_size
    \/ zbr.offs % 8 # 0
    \/ key_type(zbr.key) \notin
           {UBIFS_INO_KEY, UBIFS_DATA_KEY, UBIFS_DENT_KEY, UBIFS_XENT_KEY}
    \/ /\ level = 0
       /\ LET r == ranges(key_type(zbr.key))
          IN  IF r.max_len = 0 THEN zbr.len # r.len
              ELSE zbr.len < r.min_len \/ zbr.len > r.max_len

BadKeyOrder(zbranch) ==
    \E i \in 1..(Len(zbranch) - 1) :
        LET cmp == keys_cmp(zbranch[i].key, zbranch[i + 1].key)
        IN  cmp > 0 \/ (cmp = 0 /\ ~is_hash_key(zbranch[i].key))

read_znode(lnum, offs, len) ==
    Let({i \in FlashIdx : i.lnum = lnum /\ i.offs = offs /\ i.len = len}, LAMBDA found:
        IF found = {} THEN [err |-> -EINVAL, level |-> 0, zbranch |-> <<>>]
        ELSE
          LET idx == CHOOSE i \in found : TRUE
              zbranch == [i \in 1..Len(idx.branches) |->
                            Zbranch(idx.branches[i].key, idx.branches[i].lnum,
                                    idx.branches[i].offs, idx.branches[i].len, NULL)]
          IN  IF \/ Len(idx.branches) > fanout
                 \/ idx.level > UBIFS_MAX_LEVELS
                 \/ \E i \in 1..Len(zbranch) : BadBranch(idx.level, zbranch[i])
                 \/ BadKeyOrder(zbranch)
              THEN [err |-> -EINVAL, level |-> 0, zbranch |-> <<>>]
              ELSE [err |-> 0, level |-> idx.level, zbranch |-> zbranch])

(* kmalloc/kzalloc succeed unless this is the allocation chosen to fail:  *)
(* st.failat counts down to the failing allocation, 0 means none fails.    *)
kmalloc(st) ==
    [ok |-> st.failat # 1,
     st |-> [st EXCEPT !.failat = IF @ = 0 THEN 0 ELSE @ - 1]]

(* ubifs_add_dirt(c, lnum, dirty): the dirty space of LEB lnum grows *)
ubifs_add_dirt(st, lnum, len) ==
    IF lnum \in DOMAIN st.dirt THEN [st EXCEPT !.dirt[lnum] = @ + len] ELSE st

add_idx_dirt(st, lnum, len) == ubifs_add_dirt(st, lnum, len)

(* a load that leaves c->clean_zn_cnt alone *)
load_znode_uncounted(st, zp, n) ==
    LET a == kmalloc(st)
        zbr == ZbrAt(st, zp, n) IN
    Let(read_znode(zbr.lnum, zbr.offs, zbr.len), LAMBDA rd:
    LET id == kzalloc(a.st)
        znode == [ZeroZnode EXCEPT !.level = rd.level, !.zbranch = rd.zbranch,
                                   !.parent = zp, !.iip = n] IN
        IF ~a.ok THEN [st |-> a.st, err |-> -ENOMEM, zn |-> NULL]
        ELSE IF rd.err # 0 THEN [st |-> a.st, err |-> rd.err, zn |-> NULL]
        ELSE [st |-> SetZbr(PutZn(a.st, id, znode), zp, n, [zbr EXCEPT !.znode = id]),
              err |-> 0, zn |-> id])

(* load_znode(c, zbr, parent, iip) with zbr the branch (zp, n) *)
load_znode(st, zp, n) ==
    LET a == kmalloc(st)
        zbr == ZbrAt(st, zp, n) IN
    Let(read_znode(zbr.lnum, zbr.offs, zbr.len), LAMBDA rd:
    LET id == kzalloc(a.st)
        znode == [ZeroZnode EXCEPT !.level = rd.level, !.zbranch = rd.zbranch,
                                   !.parent = zp, !.iip = n] IN
        IF ~a.ok THEN [st |-> a.st, err |-> -ENOMEM, zn |-> NULL]
        ELSE IF rd.err # 0 THEN [st |-> a.st, err |-> rd.err, zn |-> NULL]
        ELSE [st |-> [SetZbr(PutZn(a.st, id, znode), zp, n, [zbr EXCEPT !.znode = id])
                         EXCEPT !.clean_zn_cnt = @ + 1],
              err |-> 0, zn |-> id])

get_znode(st, znode, n) ==
    LET zbr == st.zn[znode].zbranch[n + 1]
    IN  IF zbr.znode # NULL THEN [st |-> st, err |-> 0, zn |-> zbr.znode]
        ELSE load_znode(st, znode, n)

----------------------------------------------------------------------------
(* ubifs_search_zbranch: binary search of a znode's branches *)

RECURSIVE bsearch(_, _, _, _)
bsearch(zbranch, key, beg, end) ==
    IF end > beg
    THEN LET mid == (beg + end) \div 2
             cmp == keys_cmp(key, zbranch[mid + 1].key)
         IN  IF cmp > 0 THEN bsearch(zbranch, key, mid + 1, end)
             ELSE IF cmp < 0 THEN bsearch(zbranch, key, beg, mid)
             ELSE [exact |-> 1, n |-> mid]
    ELSE [exact |-> 0, n |-> end - 1]

ubifs_search_zbranch(znode, key) == bsearch(znode.zbranch, key, 0, child_cnt(znode))

----------------------------------------------------------------------------
(* tnc_next, tnc_prev: the in-order neighbour of slot n of a leaf znode.   *)
(* The result is [st, err, zn, n]; zn and n are unchanged on -ENOENT.      *)

RECURSIVE descend_left(_, _)
descend_left(st, znode) ==
    IF st.zn[znode].level = 0 THEN [st |-> st, err |-> 0, zn |-> znode]
    ELSE Let(get_znode(st, znode, 0), LAMBDA g:
             IF g.err # 0 THEN g ELSE descend_left(g.st, g.zn))

RECURSIVE descend_right(_, _)
descend_right(st, znode) ==
    IF st.zn[znode].level = 0 THEN [st |-> st, err |-> 0, zn |-> znode]
    ELSE Let(get_znode(st, znode, child_cnt(st.zn[znode]) - 1), LAMBDA g:
             IF g.err # 0 THEN g ELSE descend_right(g.st, g.zn))

RECURSIVE next_up(_, _, _, _)
next_up(st, znode, zn0, n0) ==
    LET zp == st.zn[znode].parent
        nn == st.zn[znode].iip + 1
    IN  IF zp = NULL THEN [st |-> st, err |-> -ENOENT, zn |-> zn0, n |-> n0]
        ELSE IF nn < child_cnt(st.zn[zp])
        THEN Let(get_znode(st, zp, nn), LAMBDA g:
             Let(descend_left(g.st, g.zn), LAMBDA d:
                 IF g.err # 0 THEN [st |-> g.st, err |-> g.err, zn |-> zn0, n |-> n0]
                 ELSE IF d.err # 0 THEN [st |-> d.st, err |-> d.err, zn |-> zn0, n |-> n0]
                 ELSE [st |-> d.st, err |-> 0, zn |-> d.zn, n |-> 0]))
        ELSE next_up(st, zp, zn0, n0)

tnc_next(st, znode, n) ==
    IF n + 1 < child_cnt(st.zn[znode])
    THEN [st |-> st, err |-> 0, zn |-> znode, n |-> n + 1]
    ELSE next_up(st, znode, znode, n)

RECURSIVE prev_up(_, _, _, _)
prev_up(st, znode, zn0, n0) ==
    LET zp == st.zn[znode].parent
        nn == st.zn[znode].iip - 1
    IN  IF zp = NULL THEN [st |-> st, err |-> -ENOENT, zn |-> zn0, n |-> n0]
        ELSE IF nn >= 0
        THEN Let(get_znode(st, zp, nn), LAMBDA g:
             Let(descend_right(g.st, g.zn), LAMBDA d:
                 IF g.err # 0 THEN [st |-> g.st, err |-> g.err, zn |-> zn0, n |-> n0]
                 ELSE IF d.err # 0 THEN [st |-> d.st, err |-> d.err, zn |-> zn0, n |-> n0]
                 ELSE [st |-> d.st, err |-> 0, zn |-> d.zn,
                       n |-> child_cnt(d.st.zn[d.zn]) - 1]))
        ELSE prev_up(st, zp, zn0, n0)

tnc_prev(st, znode, n) ==
    IF n > 0 THEN [st |-> st, err |-> 0, zn |-> znode, n |-> n - 1]
    ELSE prev_up(st, znode, znode, n)

----------------------------------------------------------------------------
(* The old index: positions of index nodes obsoleted since the last commit *)

insert_old_idx(st, lnum, offs) ==
    LET a == kmalloc(st)
    IN  IF ~a.ok THEN [st |-> a.st, err |-> -ENOMEM]
        ELSE [st |-> [a.st EXCEPT !.old_idx = @ \cup {<<lnum, offs>>}], err |-> 0]

(* the branch that refers to znode: its parent's slot iip, or zroot *)
ins_clr_old_idx_znode(st, znode) ==
    LET zp == st.zn[znode].parent
        n == st.zn[znode].iip
        zbr == ZbrAt(st, zp, n)
        o == insert_old_idx(st, zbr.lnum, zbr.offs)
    IN  IF zbr.len = 0 THEN [st |-> st, err |-> 0]
        ELSE IF o.err # 0 THEN o
        ELSE [st |-> SetZbr(o.st, zp, n, [zbr EXCEPT !.lnum = 0, !.offs = 0, !.len = 0]),
              err |-> 0]

----------------------------------------------------------------------------
(* Copy-on-write *)

(* a copy that hands back the znode being committed itself *)
copy_znode_in_place(st, znode) ==
    [st |-> [st EXCEPT !.zn[znode].cow = FALSE], err |-> 0, zn |-> znode]

copy_znode(st, znode) ==
    LET a == kmalloc(st)
        id == kzalloc(a.st)
        orig == a.st.zn[znode]
        zn1 == [orig EXCEPT !.cnext = FALSE, !.dirty = TRUE, !.cow = FALSE]
        kids == IF orig.level # 0
                THEN {orig.zbranch[i].znode : i \in 1..child_cnt(orig)} \ {NULL}
                ELSE {}
        s1 == PutZn(a.st, id, zn1)
    IN  IF ~a.ok THEN [st |-> a.st, err |-> -ENOMEM, zn |-> NULL]
        ELSE [st |-> [s1 EXCEPT !.zn = [x \in DOMAIN s1.zn |->
                          IF x = znode THEN [s1.zn[x] EXCEPT !.obsolete = TRUE]
                          ELSE IF x \in kids THEN [s1.zn[x] EXCEPT !.parent = id]
                          ELSE s1.zn[x]],
                                !.dirty_zn_cnt = @ + 1],
              err |-> 0, zn |-> id]

(* dirty_cow_znode(c, zbr) with zbr the branch (zp, n) *)
dirty_cow_znode(st, zp, n) ==
    LET zbr == ZbrAt(st, zp, n)
        znode == zbr.znode IN
    Let(copy_znode(st, znode), LAMBDA c:
    LET o == IF zbr.len # 0 THEN insert_old_idx(c.st, zbr.lnum, zbr.offs)
             ELSE [st |-> c.st, err |-> 0]
        s1 == IF zbr.len # 0 THEN add_idx_dirt(o.st, zbr.lnum, zbr.len) ELSE o.st IN
        IF ~st.zn[znode].cow
        THEN [st |-> IF st.zn[znode].dirty THEN st
                     ELSE add_idx_dirt([st EXCEPT !.zn[znode].dirty = TRUE,
                                                  !.dirty_zn_cnt = @ + 1,
                                                  !.clean_zn_cnt = @ - 1],
                                       zbr.lnum, zbr.len),
              err |-> 0, zn |-> znode]
        ELSE IF c.err # 0 THEN c
        ELSE IF o.err # 0 THEN [st |-> o.st, err |-> o.err, zn |-> NULL]
        ELSE [st |-> SetZbr(s1, zp, n,
                            [ZbrAt(s1, zp, n) EXCEPT !.znode = c.zn, !.lnum = 0,
                                                     !.offs = 0, !.len = 0]),
              err |-> 0, zn |-> c.zn])

RECURSIVE bottom_up_path(_, _, _)
bottom_up_path(st, znode, path) ==
    LET zp == st.zn[znode].parent
        path1 == Append(path, st.zn[znode].iip)
    IN  IF zp = NULL THEN [znode |-> znode, path |-> path]
        ELSE IF ~st.zn[zp].cnext /\ ubifs_zn_dirty(st.zn[znode])
        THEN [znode |-> znode, path |-> path1]
        ELSE bottom_up_path(st, zp, path1)

RECURSIVE bottom_up_dirty(_, _, _)
bottom_up_dirty(st, znode, path) ==
    LET zp == st.zn[znode].parent
        p == Len(path) IN
    Let(     IF zp # NULL THEN dirty_cow_znode(st, zp, path[p])
             ELSE dirty_cow_znode(st, NULL, 0), LAMBDA d:
    LET path1 == IF zp # NULL THEN SubSeq(path, 1, p - 1) ELSE path IN
        IF d.err # 0 \/ Len(path1) = 0 THEN d
        ELSE bottom_up_dirty(d.st,
                 d.st.zn[d.zn].zbranch[path1[Len(path1)] + 1].znode, path1))

dirty_cow_bottom_up(st, znode) ==
    LET up == IF st.zn[st.zroot.znode].level # 0
              THEN bottom_up_path(st, znode, <<>>)
              ELSE [znode |-> znode, path |-> <<>>]
    IN  bottom_up_dirty(st, up.znode, up.path)

----------------------------------------------------------------------------
(* lookup_level0, lookup_level0_dirty.  The result is [st, ret, zn, n]     *)
(* with ret the C return value: 1 exact, 0 not exact, negative on error.   *)

RECURSIVE walk_level0(_, _, _, _)
walk_level0(st, znode, key, dirty) ==
    Let(ubifs_search_zbranch(st.zn[znode], key), LAMBDA s:
    LET n == IF s.n < 0 THEN 0 ELSE s.n IN
    Let(get_znode(st, znode, n), LAMBDA g:
    Let(IF dirty /\ g.err = 0 THEN dirty_cow_znode(g.st, znode, n) ELSE g, LAMBDA d:
        IF st.zn[znode].level = 0
        THEN [st |-> st, ret |-> s.exact, zn |-> znode, n |-> s.n]
        ELSE IF d.err # 0 THEN [st |-> d.st, ret |-> d.err, zn |-> NULL, n |-> 0]
        ELSE walk_level0(d.st, d.zn, key, dirty))))

lookup_level0(st, key) ==
    Let(     IF st.zroot.znode = NULL THEN load_znode(st, NULL, 0)
             ELSE [st |-> st, err |-> 0, zn |-> st.zroot.znode], LAMBDA l:
    Let(walk_level0(l.st, l.zn, key, FALSE), LAMBDA w:
    Let(tnc_prev(w.st, w.zn, w.n), LAMBDA pv:
        IF l.err # 0 THEN [st |-> l.st, ret |-> l.err, zn |-> NULL, n |-> 0]
        ELSE IF w.ret < 0 THEN w
        ELSE IF w.ret = 1 \/ ~is_hash_key(key) \/ w.n # -1 THEN w
        ELSE IF pv.err = -ENOENT THEN [st |-> pv.st, ret |-> 0, zn |-> w.zn, n |-> -1]
        ELSE IF pv.err < 0 THEN [st |-> pv.st, ret |-> pv.err, zn |-> w.zn, n |-> w.n]
        ELSE IF keys_cmp(key, pv.st.zn[pv.zn].zbranch[pv.n + 1].key) # 0
        THEN [st |-> pv.st, ret |-> 0, zn |-> w.zn, n |-> -1]
        ELSE [st |-> pv.st, ret |-> 1, zn |-> pv.zn, n |-> pv.n])))

(* lookup_level0_dirty without the dirty_cow_bottom_up of the leaf the     *)
(* left-edge probe stepped to                                              *)
lookup_level0_dirty_edge(st, key) ==
    Let(     IF st.zroot.znode = NULL THEN load_znode(st, NULL, 0)
             ELSE [st |-> st, err |-> 0, zn |-> st.zroot.znode], LAMBDA l:
    Let(IF l.err = 0 THEN dirty_cow_znode(l.st, NULL, 0) ELSE l, LAMBDA r:
    Let(walk_level0(r.st, r.zn, key, TRUE), LAMBDA w:
    Let(tnc_prev(w.st, w.zn, w.n), LAMBDA pv:
        IF r.err # 0 THEN [st |-> r.st, ret |-> r.err, zn |-> NULL, n |-> 0]
        ELSE IF w.ret < 0 THEN w
        ELSE IF w.ret = 1 \/ ~is_hash_key(key) \/ w.n # -1 THEN w
        ELSE IF pv.err = -ENOENT THEN [st |-> pv.st, ret |-> 0, zn |-> w.zn, n |-> -1]
        ELSE IF pv.err < 0 THEN [st |-> pv.st, ret |-> pv.err, zn |-> w.zn, n |-> w.n]
        ELSE IF keys_cmp(key, pv.st.zn[pv.zn].zbranch[pv.n + 1].key) # 0
        THEN [st |-> pv.st, ret |-> 0, zn |-> w.zn, n |-> -1]
        ELSE [st |-> pv.st, ret |-> 1, zn |-> pv.zn, n |-> pv.n]))))

lookup_level0_dirty(st, key) ==
    Let(     IF st.zroot.znode = NULL THEN load_znode(st, NULL, 0)
             ELSE [st |-> st, err |-> 0, zn |-> st.zroot.znode], LAMBDA l:
    Let(IF l.err = 0 THEN dirty_cow_znode(l.st, NULL, 0) ELSE l, LAMBDA r:
    Let(walk_level0(r.st, r.zn, key, TRUE), LAMBDA w:
    Let(tnc_prev(w.st, w.zn, w.n), LAMBDA pv:
    Let(     IF pv.st.zn[pv.zn].cnext \/ ~ubifs_zn_dirty(pv.st.zn[pv.zn])
             THEN dirty_cow_bottom_up(pv.st, pv.zn)
             ELSE [st |-> pv.st, err |-> 0, zn |-> pv.zn], LAMBDA b:
        IF r.err # 0 THEN [st |-> r.st, ret |-> r.err, zn |-> NULL, n |-> 0]
        ELSE IF w.ret < 0 THEN w
        ELSE IF w.ret = 1 \/ ~is_hash_key(key) \/ w.n # -1 THEN w
        ELSE IF pv.err = -ENOENT THEN [st |-> pv.st, ret |-> 0, zn |-> w.zn, n |-> -1]
        ELSE IF pv.err < 0 THEN [st |-> pv.st, ret |-> pv.err, zn |-> w.zn, n |-> w.n]
        ELSE IF keys_cmp(key, pv.st.zn[pv.zn].zbranch[pv.n + 1].key) # 0
        THEN [st |-> pv.st, ret |-> 0, zn |-> w.zn, n |-> -1]
        ELSE IF b.err # 0 THEN [st |-> b.st, ret |-> b.err, zn |-> w.zn, n |-> pv.n]
        ELSE [st |-> b.st, ret |-> 1, zn |-> b.zn, n |-> pv.n])))))

----------------------------------------------------------------------------
(* Leaf-node cache and leaf reads.  zbr is slot n of the leaf znode.       *)

EFAULT == 14

(* a kernel NULL pointer dereference: the thread dies inside the operation *)
Oops(st) == [st EXCEPT !.oops = TRUE]

ubifs_validate_entry(dent) ==
    IF \/ dent.len # Len(dent.name) + UBIFS_DENT_NODE_SZ + 1
       \/ Len(dent.name) > UBIFS_MAX_NLEN
       \/ key_type(dent.key) \notin {UBIFS_DENT_KEY, UBIFS_XENT_KEY}
    THEN -EINVAL ELSE 0

lnc_add(st, znode, n, node) ==
    LET zbr == st.zn[znode].zbranch[n + 1]
        v == ubifs_validate_entry(node)
        a == kmalloc(st)
    IN  IF key_type(zbr.key) # UBIFS_DENT_KEY THEN [st |-> st, err |-> 0]
        ELSE IF v # 0 THEN [st |-> st, err |-> v]
        ELSE IF ~a.ok THEN [st |-> a.st, err |-> 0]
        ELSE [st |-> [a.st EXCEPT !.zn[znode].zbranch[n + 1].leaf = node], err |-> 0]

lnc_free(st, znode, n) == [st EXCEPT !.zn[znode].zbranch[n + 1].leaf = NoLeaf]

(* ubifs_read_node: the node at the position must have the type and length *)
ubifs_read_node(type, len, lnum, offs) ==
    Let(FlashNode(lnum, offs), LAMBDA node:
        IF node = NoNode \/ key_type(node.key) # type \/ node.len # len
        THEN [err |-> -EINVAL, node |-> NoNode]
        ELSE [err |-> 0, node |-> node])

tnc_read_node(st, znode, n) ==
    LET zbr == st.zn[znode].zbranch[n + 1] IN
    Let(ubifs_read_node(key_type(zbr.key), zbr.len, zbr.lnum, zbr.offs), LAMBDA rd:
    Let(lnc_add(st, znode, n, rd.node), LAMBDA l:
        IF zbr.leaf # NoLeaf THEN [st |-> st, err |-> 0, node |-> zbr.leaf]
        ELSE IF rd.err # 0 THEN [st |-> st, err |-> rd.err, node |-> NoNode]
        ELSE IF rd.node.key # zbr.key THEN [st |-> st, err |-> 0, node |-> rd.node]
        ELSE [st |-> l.st, err |-> l.err, node |-> rd.node]))

try_read_node(type, len, lnum, offs) ==
    Let(FlashNode(lnum, offs), LAMBDA node:
        IF node = NoNode \/ key_type(node.key) # type \/ node.len # len
        THEN [ret |-> 0, node |-> NoNode]
        ELSE [ret |-> 1, node |-> node])

fallible_read_node(st, key, znode, n) ==
    LET zbr == st.zn[znode].zbranch[n + 1] IN
    Let(try_read_node(key_type(key), zbr.len, zbr.lnum, zbr.offs), LAMBDA rd:
    Let(lnc_add(st, znode, n, rd.node), LAMBDA l:
        IF zbr.leaf # NoLeaf THEN [st |-> st, ret |-> 0, node |-> zbr.leaf]
        ELSE IF rd.ret # 1 THEN [st |-> st, ret |-> rd.ret, node |-> NoNode]
        ELSE IF keys_cmp(key, rd.node.key) # 0 THEN [st |-> st, ret |-> 0, node |-> NoNode]
        ELSE IF rd.node.sqnum > st.replay_sqnum THEN [st |-> st, ret |-> 0, node |-> NoNode]
        ELSE IF l.err # 0 THEN [st |-> l.st, ret |-> l.err, node |-> NoNode]
        ELSE [st |-> l.st, ret |-> 1, node |-> rd.node]))

(* memcmp() of the common prefix *)
RECURSIVE memcmp(_, _, _)
memcmp(a, b, len) ==
    IF len = 0 THEN 0
    ELSE IF Head(a) < Head(b) THEN -1
    ELSE IF Head(a) > Head(b) THEN 1
    ELSE memcmp(Tail(a), Tail(b), len - 1)

Min(a, b) == IF a < b THEN a ELSE b

name_cmp(dname, nm) ==
    LET err == memcmp(dname, nm, Min(Len(dname), Len(nm)))
    IN  IF err = 0
        THEN IF Len(dname) = Len(nm) THEN NAME_MATCHES
             ELSE IF Len(dname) < Len(nm) THEN NAME_LESS
             ELSE NAME_GREATER
        ELSE IF err < 0 THEN NAME_LESS
        ELSE NAME_GREATER

(* the comparison at `dent = zbr->leaf`: a NULL leaf is dereferenced *)
leaf_name_cmp(st, znode, n, nm) ==
    LET dent == st.zn[znode].zbranch[n + 1].leaf
    IN  IF dent = NoLeaf THEN [st |-> Oops(st), ret |-> -EFAULT]
        ELSE [st |-> st, ret |-> name_cmp(dent.name, nm)]

matches_name(st, znode, n, nm) ==
    LET zbr == st.zn[znode].zbranch[n + 1]
        a == kmalloc(st) IN
    Let(tnc_read_node(a.st, znode, n), LAMBDA rd:
    LET v == ubifs_validate_entry(rd.node) IN
        IF zbr.leaf # NoLeaf THEN leaf_name_cmp(st, znode, n, nm)
        ELSE IF ~a.ok THEN [st |-> a.st, ret |-> -ENOMEM]
        ELSE IF rd.err # 0 THEN [st |-> rd.st, ret |-> rd.err]
        ELSE IF v # 0 THEN [st |-> lnc_free(rd.st, znode, n), ret |-> v]
        ELSE leaf_name_cmp(rd.st, znode, n, nm))

fallible_matches_name(st, znode, n, nm) ==
    LET zbr == st.zn[znode].zbranch[n + 1]
        a == kmalloc(st) IN
    Let(fallible_read_node(a.st, zbr.key, znode, n), LAMBDA rd:
    LET v == ubifs_validate_entry(rd.node) IN
        IF zbr.leaf # NoLeaf THEN leaf_name_cmp(st, znode, n, nm)
        ELSE IF ~a.ok THEN [st |-> a.st, ret |-> -ENOMEM]
        ELSE IF rd.ret < 0 THEN [st |-> rd.st, ret |-> rd.ret]
        ELSE IF rd.ret = 0 THEN [st |-> rd.st, ret |-> NOT_ON_MEDIA]
        ELSE IF v # 0 THEN [st |-> lnc_free(rd.st, znode, n), ret |-> v]
        ELSE leaf_name_cmp(rd.st, znode, n, nm))

----------------------------------------------------------------------------
(* Collision resolution for hashed keys.  Results are [st, ret, zn, n]:    *)
(* ret is the C return value, (zn, n) the values left in *zn and *n.       *)

KeyAt(st, znode, n) == st.zn[znode].zbranch[n + 1].key

Res(st, ret, zn, n) == [st |-> st, ret |-> ret, zn |-> zn, n |-> n]

RECURSIVE look_left(_, _, _, _, _)
look_left(st, key, zn, n, nm) ==
    Let(tnc_prev(st, zn, n), LAMBDA pv:
    Let(matches_name(pv.st, pv.zn, pv.n, nm), LAMBDA m:
        IF pv.err = -ENOENT THEN Res(pv.st, 0, zn, -1)
        ELSE IF pv.err < 0 THEN Res(pv.st, pv.err, zn, n)
        ELSE IF keys_cmp(KeyAt(pv.st, pv.zn, pv.n), key) # 0 THEN Res(pv.st, 0, pv.zn, pv.n)
        ELSE IF m.ret < 0 THEN Res(m.st, m.ret, pv.zn, pv.n)
        ELSE IF m.ret = NAME_LESS THEN Res(m.st, 0, pv.zn, pv.n)
        ELSE IF m.ret = NAME_MATCHES THEN Res(m.st, 1, pv.zn, pv.n)
        ELSE look_left(m.st, key, pv.zn, pv.n, nm)))

RECURSIVE look_right(_, _, _, _, _)
look_right(st, key, zn, n, nm) ==
    Let(tnc_next(st, zn, n), LAMBDA nx:
    Let(matches_name(nx.st, nx.zn, nx.n, nm), LAMBDA m:
        IF nx.err = -ENOENT THEN Res(nx.st, 0, zn, n)
        ELSE IF nx.err < 0 THEN Res(nx.st, nx.err, zn, n)
        ELSE IF keys_cmp(KeyAt(nx.st, nx.zn, nx.n), key) # 0 THEN Res(nx.st, 0, zn, n)
        ELSE IF m.ret < 0 THEN Res(m.st, m.ret, zn, n)
        ELSE IF m.ret = NAME_GREATER THEN Res(m.st, 0, zn, n)
        ELSE IF m.ret = NAME_MATCHES THEN Res(m.st, 1, nx.zn, nx.n)
        ELSE look_right(m.st, key, nx.zn, nx.n, nm)))

resolve_collision(st, key, zn, n, nm) ==
    Let(matches_name(st, zn, n, nm), LAMBDA m:
        IF m.ret < 0 THEN Res(m.st, m.ret, zn, n)
        ELSE IF m.ret = NAME_MATCHES THEN Res(m.st, 1, zn, n)
        ELSE IF m.ret = NAME_GREATER THEN look_left(m.st, key, zn, n, nm)
        ELSE look_right(m.st, key, zn, n, nm))

(* The fallible variant: o is the dangling branch remembered so far        *)
(* (o.zn = NULL when none); done tells that the function has returned.     *)
FRes(st, done, ret, zn, n, o, unsure) ==
    [st |-> st, done |-> done, ret |-> ret, zn |-> zn, n |-> n, o |-> o,
     unsure |-> unsure]

RECURSIVE fallible_look_left(_, _, _, _, _, _, _)
fallible_look_left(st, key, zn, n, nm, o, unsure) ==
    Let(tnc_prev(st, zn, n), LAMBDA pv:
    Let(fallible_matches_name(pv.st, pv.zn, pv.n, nm), LAMBDA m:
        IF pv.err = -ENOENT THEN FRes(pv.st, FALSE, 0, zn, -1, o, unsure)
        ELSE IF pv.err < 0 THEN FRes(pv.st, TRUE, pv.err, zn, n, o, unsure)
        ELSE IF keys_cmp(KeyAt(pv.st, pv.zn, pv.n), key) # 0
        THEN FRes(pv.st, FALSE, 0, pv.zn, pv.n, o, unsure)
        ELSE IF m.ret < 0 THEN FRes(m.st, TRUE, m.ret, pv.zn, pv.n, o, unsure)
        ELSE IF m.ret = NAME_LESS THEN FRes(m.st, FALSE, 0, pv.zn, pv.n, o, unsure)
        ELSE IF m.ret = NAME_MATCHES THEN FRes(m.st, TRUE, 1, pv.zn, pv.n, o, unsure)
        ELSE IF m.ret = NOT_ON_MEDIA
        THEN fallible_look_left(m.st, key, pv.zn, pv.n, nm, [zn |-> pv.zn, n |-> pv.n], unsure)
        ELSE fallible_look_left(m.st, key, pv.zn, pv.n, nm, o, FALSE)))

(* (zn, n) is *zn/*n, (znode, nn) the local cursor *)
RECURSIVE fallible_look_right(_, _, _, _, _, _, _, _)
fallible_look_right(st, key, zn, n, znode, nn, nm, o) ==
    Let(tnc_next(st, znode, nn), LAMBDA nx:
    Let(fallible_matches_name(nx.st, nx.zn, nx.n, nm), LAMBDA m:
        IF nx.err = -ENOENT THEN FRes(nx.st, FALSE, 0, zn, n, o, FALSE)
        ELSE IF nx.err < 0 THEN FRes(nx.st, TRUE, nx.err, zn, n, o, FALSE)
        ELSE IF keys_cmp(KeyAt(nx.st, nx.zn, nx.n), key) # 0
        THEN FRes(nx.st, FALSE, 0, zn, n, o, FALSE)
        ELSE IF m.ret < 0 THEN FRes(m.st, TRUE, m.ret, zn, n, o, FALSE)
        ELSE IF m.ret = NAME_GREATER THEN FRes(m.st, FALSE, 0, zn, n, o, FALSE)
        ELSE IF m.ret = NAME_MATCHES THEN FRes(m.st, TRUE, 1, nx.zn, nx.n, o, FALSE)
        ELSE IF m.ret = NOT_ON_MEDIA
        THEN fallible_look_right(m.st, key, nx.zn, nx.n, nx.zn, nx.n, nm,
                                 [zn |-> nx.zn, n |-> nx.n])
        ELSE fallible_look_right(m.st, key, nx.zn, nx.n, nx.zn, nx.n, nm, o)))

fallible_resolve_collision(st, key, zn, n, nm) ==
    Let(fallible_matches_name(st, zn, n, nm), LAMBDA cmp:
    LET unsure == cmp.ret = NOT_ON_MEDIA
        o == IF unsure THEN [zn |-> zn, n |-> n] ELSE [zn |-> NULL, n |-> 0] IN
    Let(      IF cmp.ret = NAME_GREATER \/ unsure
              THEN fallible_look_left(cmp.st, key, zn, n, nm, o, unsure)
              ELSE FRes(cmp.st, FALSE, 0, zn, n, o, unsure), LAMBDA lf:
    Let(      IF ~lf.done /\ (cmp.ret = NAME_LESS \/ lf.unsure)
              THEN fallible_look_right(lf.st, key, zn, n, zn, n, nm, lf.o)
              ELSE lf, LAMBDA rt:
        IF cmp.ret < 0 THEN Res(cmp.st, cmp.ret, zn, n)
        ELSE IF cmp.ret = NAME_MATCHES THEN Res(cmp.st, 1, zn, n)
        ELSE IF rt.done THEN Res(rt.st, rt.ret, rt.zn, rt.n)
        ELSE IF rt.o.zn = NULL THEN Res(rt.st, 0, rt.zn, rt.n)
        ELSE Res(rt.st, 1, rt.o.zn, rt.o.n))))

matches_position(zbr, lnum, offs) == zbr.lnum = lnum /\ zbr.offs = offs

(* ret: 1 found at (zn, n), 0 the run of equal keys ended, negative error *)
RECURSIVE directly_left(_, _, _, _, _, _)
directly_left(st, key, znode, nn, lnum, offs) ==
    Let(tnc_prev(st, znode, nn), LAMBDA pv:
        IF pv.err = -ENOENT THEN Res(pv.st, 0, znode, nn)
        ELSE IF pv.err < 0 THEN Res(pv.st, pv.err, znode, nn)
        ELSE IF keys_cmp(KeyAt(pv.st, pv.zn, pv.n), key) # 0 THEN Res(pv.st, 0, znode, nn)
        ELSE IF matches_position(pv.st.zn[pv.zn].zbranch[pv.n + 1], lnum, offs)
        THEN Res(pv.st, 1, pv.zn, pv.n)
        ELSE directly_left(pv.st, key, pv.zn, pv.n, lnum, offs))

RECURSIVE directly_right(_, _, _, _, _, _)
directly_right(st, key, zn, n, lnum, offs) ==
    Let(tnc_next(st, zn, n), LAMBDA nx:
        IF nx.err = -ENOENT THEN Res(nx.st, 0, zn, n)
        ELSE IF nx.err < 0 THEN Res(nx.st, nx.err, zn, n)
        ELSE IF keys_cmp(KeyAt(nx.st, nx.zn, nx.n), key) # 0 THEN Res(nx.st, 0, zn, n)
        ELSE IF matches_position(nx.st.zn[nx.zn].zbranch[nx.n + 1], lnum, offs)
        THEN Res(nx.st, 1, nx.zn, nx.n)
        ELSE directly_right(nx.st, key, nx.zn, nx.n, lnum, offs))

resolve_collision_directly(st, key, zn, n, lnum, offs) ==
    Let(directly_left(st, key, zn, n, lnum, offs), LAMBDA lf:
        IF matches_position(st.zn[zn].zbranch[n + 1], lnum, offs) THEN Res(st, 1, zn, n)
        ELSE IF lf.ret < 0 THEN Res(lf.st, lf.ret, zn, n)
        ELSE IF lf.ret = 1 THEN lf
        ELSE directly_right(lf.st, key, zn, n, lnum, offs))

----------------------------------------------------------------------------
(* Insertion *)

RECURSIVE correct_parent_keys_from(_, _, _)
correct_parent_keys_from(st, znode, key) ==
    LET zp == st.zn[znode].parent
        s1 == [st EXCEPT !.zn[zp].zbranch[1].key = key, !.zn[zp].alt = TRUE]
    IN  IF keys_cmp(key, st.zn[zp].zbranch[1].key) < 0
        THEN IF s1.zn[zp].parent = NULL \/ s1.zn[zp].iip # 0 THEN s1
             ELSE correct_parent_keys_from(s1, zp, key)
        ELSE st

(* parent keys left as they are *)
correct_parent_keys_not(st, znode) == st

correct_parent_keys(st, znode) ==
    correct_parent_keys_from(st, znode, st.zn[znode].zbranch[1].key)

(* slot numbers of the shifted children left as they are *)
FixIip_not(st, znode, from) == st

(* children of znode get the slot numbers of the branches that hold them *)
FixIip(st, znode, from) ==
    LET zb == st.zn[znode].zbranch
    IN  [st EXCEPT !.zn = [x \in DOMAIN st.zn |->
            IF \E i \in (from + 1)..Len(zb) : zb[i].znode = x
            THEN [st.zn[x] EXCEPT !.iip =
                     (CHOOSE i \in (from + 1)..Len(zb) : zb[i].znode = x) - 1]
            ELSE st.zn[x]]]

(* an insertion that leaves the ALT flag alone *)
insert_zbranch_noalt(st, znode, zbr, n) ==
    LET z == st.zn[znode]
        zb == SubSeq(z.zbranch, 1, n) \o <<zbr>> \o SubSeq(z.zbranch, n + 1, Len(z.zbranch))
        s1 == [st EXCEPT !.zn[znode].zbranch = zb]
    IN  IF z.level # 0 THEN FixIip(s1, znode, n) ELSE s1

insert_zbranch(st, znode, zbr, n) ==
    LET z == st.zn[znode]
        zb == SubSeq(z.zbranch, 1, n) \o <<zbr>> \o SubSeq(z.zbranch, n + 1, Len(z.zbranch))
        s1 == [st EXCEPT !.zn[znode].zbranch = zb,
                         !.zn[znode].alt = IF n = 0 THEN TRUE ELSE @]
    IN  IF z.level # 0 THEN FixIip(s1, znode, n) ELSE s1

(* a split that never takes the key for the next block of a file *)
Appending_never(z, n, key) == FALSE

(* "Decide where to split": the key is the data key of the block after    *)
(* the last branch of a full leaf                                          *)
Appending(z, n, key) ==
    /\ z.level = 0 /\ n = fanout /\ key_type(key) = UBIFS_DATA_KEY
    /\ key_ino(z.zbranch[n].key) = key_ino(key)
    /\ key_type(z.zbranch[n].key) = UBIFS_DATA_KEY
    /\ key_block(z.zbranch[n].key) = key_block(key) - 1

(* one pass of the `again:` loop; appending0 is `appending` on entry *)
RECURSIVE tnc_insert_again(_, _, _, _, _)
tnc_insert_again(st, znode, zbr, n, appending0) ==
    LET z == st.zn[znode]
        zp == z.parent
        key == zbr.key IN
    (* no free slot: split *)
    Let(IF z.alt THEN ins_clr_old_idx_znode(st, znode).st ELSE st, LAMBDA s0:
    LET a == kmalloc(s0)
        zn == kzalloc(a.st)
        appending == appending0 \/ Appending(z, n, key)
        keep0 == IF appending THEN fanout ELSE (fanout + 1) \div 2
        move0 == IF appending THEN 0 ELSE fanout - keep0
        zi == IF n < keep0 THEN znode ELSE zn
        move == IF n < keep0 THEN move0 + 1 ELSE move0
        keep == IF n < keep0 THEN keep0 - 1 ELSE keep0
        n1 == IF n < keep0 THEN n ELSE n - keep0
        znew == [ZeroZnode EXCEPT !.parent = zp, !.level = z.level, !.dirty = TRUE,
                                  !.zbranch = SubSeq(z.zbranch, keep + 1, keep + move)]
        s1 == [PutZn(a.st, zn, znew) EXCEPT !.dirty_zn_cnt = @ + 1]
        s2 == IF zi = zn /\ z.level # 0
              THEN [s1 EXCEPT !.zn[zbr.znode].parent = zn] ELSE s1
        s3 == [s2 EXCEPT !.zn[znode].zbranch = SubSeq(z.zbranch, 1, keep)]
        moved == IF z.level # 0
                 THEN {znew.zbranch[i].znode : i \in 1..move} \ {NULL} ELSE {}
        s4 == FixIip([s3 EXCEPT !.zn = [x \in DOMAIN s3.zn |->
                         IF x \in moved THEN [s3.zn[x] EXCEPT !.parent = zn]
                         ELSE s3.zn[x]]], zn, 0) IN
    Let(insert_zbranch(s4, zi, zbr, n1), LAMBDA s5:
    (* insert the new znode into the parent *)
    Let(      IF n1 = 0 /\ zi = znode /\ s5.zn[znode].iip = 0
              THEN correct_parent_keys(s5, znode) ELSE s5, LAMBDA s6:
    LET zbr1 == Zbranch(s6.zn[zn].zbranch[1].key, 0, 0, 0, zn) IN
    (* split of the root *)
    LET b == kmalloc(s5)
        zi2 == kzalloc(b.st)
        root == [ZeroZnode EXCEPT !.level = z.level + 1, !.dirty = TRUE,
                    !.zbranch = <<Zbranch(s5.zn[znode].zbranch[1].key, s5.zroot.lnum,
                                          s5.zroot.offs, s5.zroot.len, znode),
                                  Zbranch(s5.zn[zn].zbranch[1].key, 0, 0, 0, zn)>>]
        s7 == [PutZn(b.st, zi2, root) EXCEPT !.dirty_zn_cnt = @ + 1] IN
        IF child_cnt(z) < fanout
        THEN Let(insert_zbranch(st, znode, zbr, n), LAMBDA i1:
                 [st |-> IF n = 0 /\ zp # NULL /\ i1.zn[znode].iip = 0
                         THEN correct_parent_keys(i1, znode) ELSE i1,
                  err |-> 0])
        ELSE IF ~a.ok THEN [st |-> a.st, err |-> -ENOMEM]
        ELSE IF zp # NULL
        THEN tnc_insert_again(s6, zp, zbr1, s6.zn[znode].iip + 1,
                              appending /\ s6.zn[znode].iip + 1 = fanout)
        ELSE IF ~b.ok THEN [st |-> b.st, err |-> -ENOMEM]
        ELSE [st |-> [s7 EXCEPT !.zroot = [@ EXCEPT !.lnum = 0, !.offs = 0, !.len = 0,
                                                     !.znode = zi2],
                                !.zn[zn].parent = zi2, !.zn[zn].iip = 1,
                                !.zn[znode].parent = zi2, !.zn[znode].iip = 0],
              err |-> 0])))

tnc_insert(st, znode, zbr, n) == tnc_insert_again(st, znode, zbr, n, FALSE)

----------------------------------------------------------------------------
(* Deletion *)

insert_old_idx_znode(st, znode) ==
    LET zbr == ZbrAt(st, st.zn[znode].parent, st.zn[znode].iip)
    IN  IF zbr.len # 0 THEN insert_old_idx(st, zbr.lnum, zbr.offs)
        ELSE [st |-> st, err |-> 0]

(* free the znode, or leave it to the commit when it is on the cnext list *)
Dispose(st, znode) ==
    IF st.zn[znode].cnext
    THEN [st EXCEPT !.zn[znode].obsolete = TRUE, !.clean_zn_cnt = @ + 1]
    ELSE kfree(st, znode)

(* the do-while of tnc_delete: znode has just lost its last branch *)
RECURSIVE delete_empty(_, _)
delete_empty(st, znode) ==
    LET zp == st.zn[znode].parent
        n == st.zn[znode].iip IN
    Let(insert_old_idx_znode([st EXCEPT !.dirty_zn_cnt = @ - 1], znode), LAMBDA o:
    LET s1 == Dispose(o.st, znode) IN
        IF o.err # 0 THEN [st |-> o.st, err |-> o.err, zn |-> NULL, n |-> 0]
        ELSE IF zp = NULL THEN [st |-> Oops(s1), err |-> -EFAULT, zn |-> NULL, n |-> 0]
        ELSE IF child_cnt(s1.zn[zp]) = 1 THEN delete_empty(s1, zp)
        ELSE [st |-> s1, err |-> 0, zn |-> zp, n |-> n])

(* a root left with its one child *)
collapse_root_not(st, znode) == [st |-> st, err |-> 0]

RECURSIVE collapse_root(_, _)
collapse_root(st, znode) ==
    Let(get_znode(st, znode, 0), LAMBDA g:
    Let(dirty_cow_znode(g.st, znode, 0), LAMBDA d:
    LET s1 == [d.st EXCEPT !.zn[d.zn].parent = NULL, !.zn[d.zn].iip = 0]
        o == IF s1.zroot.len # 0 THEN insert_old_idx(s1, s1.zroot.lnum, s1.zroot.offs)
             ELSE [st |-> s1, err |-> 0]
        zbr == o.st.zn[znode].zbranch[1]
        s2 == [o.st EXCEPT !.zroot = [@ EXCEPT !.lnum = zbr.lnum, !.offs = zbr.offs,
                                               !.len = zbr.len, !.znode = d.zn]] IN
        IF ~(child_cnt(st.zn[znode]) = 1 /\ st.zn[znode].level # 0)
        THEN [st |-> st, err |-> 0]
        ELSE IF g.err # 0 THEN [st |-> g.st, err |-> g.err]
        ELSE IF d.err # 0 THEN [st |-> d.st, err |-> d.err]
        ELSE IF o.err # 0 THEN [st |-> o.st, err |-> o.err]
        ELSE collapse_root(Dispose([s2 EXCEPT !.dirty_zn_cnt = @ - 1], znode), d.zn)))

RemoveAt(seq, n) == SubSeq(seq, 1, n) \o SubSeq(seq, n + 2, Len(seq))

tnc_delete(st, znode, n) ==
    LET zbr == st.zn[znode].zbranch[n + 1]
        s1 == [ubifs_add_dirt(lnc_free(st, znode, n), zbr.lnum, zbr.len) EXCEPT
                  !.zn[znode].zbranch = RemoveAt(@, n)] IN
    Let(delete_empty(s1, znode), LAMBDA e:
    LET s2 == FixIip([e.st EXCEPT !.zn[e.zn].zbranch = RemoveAt(@, e.n)], e.zn, e.n) IN
        IF child_cnt(s1.zn[znode]) > 0 THEN [st |-> s1, err |-> 0]
        ELSE IF e.err # 0 THEN [st |-> e.st, err |-> e.err]
        ELSE IF s2.zn[e.zn].parent = NULL THEN collapse_root(s2, e.zn)
        ELSE [st |-> s2, err |-> 0])

----------------------------------------------------------------------------
(* Exposed operations.  Each takes the state on entry and returns the      *)
(* state on return together with the C return value.                       *)

ubifs_tnc_locate(st, key) ==
    Let(lookup_level0(st, key), LAMBDA l:
    LET zt == l.st.zn[l.zn].zbranch[l.n + 1] IN
    Let(tnc_read_node(l.st, l.zn, l.n), LAMBDA rd:
        IF l.ret = 0
        THEN [st |-> l.st, err |-> -ENOENT, node |-> NoNode, lnum |-> 0, offs |-> 0]
        ELSE IF l.ret < 0
        THEN [st |-> l.st, err |-> l.ret, node |-> NoNode, lnum |-> 0, offs |-> 0]
        ELSE [st |-> rd.st, err |-> rd.err, node |-> rd.node,
              lnum |-> zt.lnum, offs |-> zt.offs]))

ubifs_tnc_lookup(st, key) ==
    Let(ubifs_tnc_locate(st, key), LAMBDA r:
        [st |-> r.st, err |-> r.err, node |-> r.node])

do_lookup_nm(st, key, nm) ==
    Let(lookup_level0(st, key), LAMBDA l:
    Let(resolve_collision(l.st, key, l.zn, l.n, nm), LAMBDA rc:
    Let(tnc_read_node(rc.st, rc.zn, rc.n), LAMBDA rd:
        IF l.ret = 0 THEN [st |-> l.st, err |-> -ENOENT, node |-> NoNode]
        ELSE IF l.ret < 0 THEN [st |-> l.st, err |-> l.ret, node |-> NoNode]
        ELSE IF rc.ret < 0 THEN [st |-> rc.st, err |-> rc.ret, node |-> NoNode]
        ELSE IF rc.ret = 0 THEN [st |-> rc.st, err |-> -ENOENT, node |-> NoNode]
        ELSE [st |-> rc.st, err |-> rd.err, node |-> rd.node])))

ubifs_tnc_lookup_nm(st, key, nm) ==
    Let(ubifs_tnc_lookup(st, key), LAMBDA r:
        IF r.err # 0 THEN r
        ELSE IF r.node.name = nm THEN r
        ELSE do_lookup_nm(r.st, key, nm))

(* the branch keeps the position it had *)
SetPos_keep(st, znode, n, lnum, offs, len) == lnc_free(st, znode, n)

(* the branch takes the new position with its cached payload *)
SetPos_cached(st, znode, n, lnum, offs, len) ==
    [st EXCEPT
        !.zn[znode].zbranch[n + 1] = [@ EXCEPT !.lnum = lnum, !.offs = offs, !.len = len]]

(* the branch takes the new position and the old node is not charged *)
SetPos_uncharged(st, znode, n, lnum, offs, len) ==
    [lnc_free(st, znode, n) EXCEPT
        !.zn[znode].zbranch[n + 1] = [@ EXCEPT !.lnum = lnum, !.offs = offs, !.len = len]]

(* lnc_free(zbr), ubifs_add_dirt of the node the branch referred to, and   *)
(* the new position                                                        *)
SetPos(st, znode, n, lnum, offs, len) ==
    LET zbr == st.zn[znode].zbranch[n + 1]
    IN  [ubifs_add_dirt(lnc_free(st, znode, n), zbr.lnum, zbr.len) EXCEPT
            !.zn[znode].zbranch[n + 1] =
                [@ EXCEPT !.lnum = lnum, !.offs = offs, !.len = len]]

ubifs_tnc_add(st, key, lnum, offs, len) ==
    Let(lookup_level0_dirty(st, key), LAMBDA l:
        IF l.ret = 0 THEN tnc_insert(l.st, l.zn, Zbranch(key, lnum, offs, len, NULL), l.n + 1)
        ELSE IF l.ret = 1 THEN [st |-> SetPos(l.st, l.zn, l.n, lnum, offs, len), err |-> 0]
        ELSE [st |-> l.st, err |-> l.ret])

(* dirty the leaf when it is being committed or clean *)
EnsureDirty(st, znode) ==
    IF st.zn[znode].cnext \/ ~ubifs_zn_dirty(st.zn[znode])
    THEN dirty_cow_bottom_up(st, znode)
    ELSE [st |-> st, err |-> 0, zn |-> znode]

ubifs_tnc_replace(st, key, old_lnum, old_offs, lnum, offs, len) ==
    Let(lookup_level0_dirty(st, key), LAMBDA l:
    LET zbr == l.st.zn[l.zn].zbranch[l.n + 1] IN
    Let(resolve_collision_directly(l.st, key, l.zn, l.n, old_lnum, old_offs), LAMBDA rc:
    Let(EnsureDirty(rc.st, rc.zn), LAMBDA b:
        IF l.ret < 0 THEN [st |-> l.st, err |-> l.ret]
        ELSE IF l.ret # 1 THEN [st |-> ubifs_add_dirt(l.st, lnum, len), err |-> 0]
        ELSE IF zbr.lnum = old_lnum /\ zbr.offs = old_offs
        THEN [st |-> SetPos(l.st, l.zn, l.n, lnum, offs, len), err |-> 0]
        ELSE IF ~is_hash_key(key) THEN [st |-> ubifs_add_dirt(l.st, lnum, len), err |-> 0]
        ELSE IF rc.ret < 0 THEN [st |-> rc.st, err |-> rc.ret]
        ELSE IF rc.ret = 0 THEN [st |-> ubifs_add_dirt(rc.st, lnum, len), err |-> 0]
        ELSE IF b.err # 0 THEN [st |-> b.st, err |-> b.err]
        ELSE [st |-> SetPos(b.st, b.zn, rc.n, lnum, offs, len), err |-> 0])))

ubifs_tnc_add_nm(st, key, lnum, offs, len, nm) ==
    Let(lookup_level0_dirty(st, key), LAMBDA l:
    Let(      IF st.replaying THEN fallible_resolve_collision(l.st, key, l.zn, l.n, nm)
              ELSE resolve_collision(l.st, key, l.zn, l.n, nm), LAMBDA rc:
    Let(EnsureDirty(rc.st, rc.zn), LAMBDA b:
        IF l.ret < 0 THEN [st |-> l.st, err |-> l.ret]
        ELSE IF l.ret = 0
        THEN tnc_insert(l.st, l.zn, Zbranch(key, lnum, offs, len, NULL), l.n + 1)
        ELSE IF rc.ret < 0 THEN [st |-> rc.st, err |-> rc.ret]
        ELSE IF b.err # 0 THEN [st |-> b.st, err |-> b.err]
        ELSE IF rc.ret = 1
        THEN [st |-> SetPos(b.st, b.zn, rc.n, lnum, offs, len), err |-> 0]
        ELSE tnc_insert(b.st, b.zn, Zbranch(key, lnum, offs, len, NULL), rc.n + 1))))

ubifs_tnc_remove(st, key) ==
    Let(lookup_level0_dirty(st, key), LAMBDA l:
        IF l.ret < 0 THEN [st |-> l.st, err |-> l.ret]
        ELSE IF l.ret = 1 THEN tnc_delete(l.st, l.zn, l.n)
        ELSE [st |-> l.st, err |-> 0])

ubifs_tnc_remove_nm(st, key, nm) ==
    Let(lookup_level0_dirty(st, key), LAMBDA l:
    Let(      IF st.replaying THEN fallible_resolve_collision(l.st, key, l.zn, l.n, nm)
              ELSE resolve_collision(l.st, key, l.zn, l.n, nm), LAMBDA rc:
    Let(EnsureDirty(rc.st, rc.zn), LAMBDA b:
        IF l.ret < 0 THEN [st |-> l.st, err |-> l.ret]
        ELSE IF l.ret = 0 THEN [st |-> l.st, err |-> 0]
        ELSE IF rc.ret < 0 THEN [st |-> rc.st, err |-> rc.ret]
        ELSE IF rc.ret = 0 THEN [st |-> rc.st, err |-> 0]
        ELSE IF b.err # 0 THEN [st |-> b.st, err |-> b.err]
        ELSE tnc_delete(b.st, b.zn, rc.n))))

key_in_range(key, from_key, to_key) ==
    ~(keys_cmp(key, from_key) < 0) /\ ~(keys_cmp(key, to_key) > 0)

(* k of the loop "remove all keys in range except the first" *)
RECURSIVE RangeRun(_, _, _, _)
RangeRun(zbranch, i, from_key, to_key) ==
    IF i < Len(zbranch) /\ key_in_range(zbranch[i + 1].key, from_key, to_key)
    THEN 1 + RangeRun(zbranch, i + 1, from_key, to_key)
    ELSE 0

(* ubifs_add_dirt for the k branches from element i on *)
RECURSIVE RangeDirt(_, _, _, _)
RangeDirt(st, zbranch, i, k) ==
    IF k = 0 THEN st
    ELSE RangeDirt(ubifs_add_dirt(st, zbranch[i].lnum, zbranch[i].len), zbranch, i + 1, k - 1)

RECURSIVE ubifs_tnc_remove_range(_, _, _)
ubifs_tnc_remove_range(st, from_key, to_key) ==
    Let(lookup_level0(st, from_key), LAMBDA l:
    Let(tnc_next(l.st, l.zn, l.n), LAMBDA nx:
    LET cur == IF l.ret = 1 THEN [st |-> l.st, zn |-> l.zn, n |-> l.n]
               ELSE [st |-> nx.st, zn |-> nx.zn, n |-> nx.n] IN
    Let(EnsureDirty(cur.st, cur.zn), LAMBDA b:
    LET zb == b.st.zn[b.zn].zbranch
        k == RangeRun(zb, cur.n + 1, from_key, to_key)
        s1 == [RangeDirt(b.st, zb, cur.n + 2, k) EXCEPT !.zn[b.zn].zbranch =
                  SubSeq(zb, 1, cur.n + 1) \o SubSeq(zb, cur.n + 2 + k, Len(zb))] IN
    Let(tnc_delete(s1, b.zn, cur.n), LAMBDA d:
        IF l.ret < 0 THEN [st |-> l.st, err |-> l.ret]
        ELSE IF l.ret = 0 /\ nx.err = -ENOENT THEN [st |-> nx.st, err |-> 0]
        ELSE IF l.ret = 0 /\ nx.err < 0 THEN [st |-> nx.st, err |-> nx.err]
        ELSE IF l.ret = 0 /\ ~key_in_range(KeyAt(nx.st, nx.zn, nx.n), from_key, to_key)
        THEN [st |-> nx.st, err |-> 0]
        ELSE IF b.err # 0 THEN [st |-> b.st, err |-> b.err]
        ELSE IF d.err # 0 THEN d
        ELSE ubifs_tnc_remove_range(d.st, from_key, to_key)))))

(* the `again:` loop of ubifs_tnc_next_ent from the entry (znode, n) *)
RECURSIVE next_ent_again(_, _, _, _)
next_ent_again(st, key, znode, n) ==
    Let(tnc_next(st, znode, n), LAMBDA nx:
    LET dkey == KeyAt(nx.st, nx.zn, nx.n)
        a == kmalloc(nx.st) IN
    Let(tnc_read_node(a.st, nx.zn, nx.n), LAMBDA rd:
        IF nx.err # 0 THEN [st |-> nx.st, err |-> nx.err, dent |-> NoNode]
        ELSE IF key_ino(dkey) # key_ino(key) \/ key_type(dkey) # key_type(key)
        THEN [st |-> nx.st, err |-> -ENOENT, dent |-> NoNode]
        ELSE IF ~a.ok THEN [st |-> a.st, err |-> -ENOMEM, dent |-> NoNode]
        ELSE IF rd.err # 0 THEN [st |-> rd.st, err |-> rd.err, dent |-> NoNode]
        ELSE IF rd.node.inum = 0 THEN next_ent_again(rd.st, key, nx.zn, nx.n)
        ELSE [st |-> rd.st, err |-> 0, dent |-> rd.node]))

ubifs_tnc_next_ent(st, key, nm) ==
    Let(lookup_level0(st, key), LAMBDA l:
    Let(      IF l.ret = 1 THEN resolve_collision(l.st, key, l.zn, l.n, nm)
              ELSE Res(l.st, 0, l.zn, l.n), LAMBDA rc:
        IF l.ret < 0 THEN [st |-> l.st, err |-> l.ret, dent |-> NoNode]
        ELSE IF rc.ret < 0 THEN [st |-> rc.st, err |-> rc.ret, dent |-> NoNode]
        ELSE next_ent_again(rc.st, key, rc.zn, rc.n)))

(* the loop over the extended attribute entries of inum *)
RECURSIVE remove_ino_xents(_, _, _)
remove_ino_xents(st, key1, nm) ==
    Let(ubifs_tnc_next_ent(st, key1, nm), LAMBDA x:
    Let(ubifs_tnc_remove_nm(x.st, key1, x.dent.name), LAMBDA r:
    Let(     ubifs_tnc_remove_range(r.st, lowest_ino_key(x.dent.inum),
                                    highest_ino_key(x.dent.inum)), LAMBDA g:
        IF x.err = -ENOENT THEN [st |-> x.st, err |-> 0]
        ELSE IF x.err # 0 THEN [st |-> x.st, err |-> x.err]
        ELSE IF r.err # 0 THEN r
        ELSE IF g.err # 0 THEN g
        ELSE remove_ino_xents(g.st, x.dent.key, x.dent.name))))

ubifs_tnc_remove_ino(st, inum) ==
    Let(remove_ino_xents(st, lowest_xent_key(inum), <<>>), LAMBDA x:
        IF x.err # 0 THEN x
        ELSE ubifs_tnc_remove_range(x.st, lowest_ino_key(inum), highest_ino_key(inum)))

----------------------------------------------------------------------------
(* Journal replay (fs/ubifs/replay.c).  The replay state rp is             *)
(* [phase, buds, scan, tree, next, applied, err, highest_inum, max_sqnum,  *)
(* lprops]: buds is c->replay_buds, scan the nodes ubifs_scan finds in     *)
(* each bud LEB, tree is c->replay_tree read in order (rb_first, rb_next), *)
(* next the entry apply_replay_tree is at, applied the values              *)
(* c->replay_sqnum has taken.  Allocations of replay entries succeed.      *)
(* nbufs holds the name buffers allocated and not freed, each named by the *)
(* sqnum of the entry it was allocated for.                                *)
(* log holds the nodes ubifs_scan finds in each log LEB, in the order the  *)
(* loop of ubifs_replay_journal visits them, lpos the LEB it is at,        *)
(* cs_sqnum is c->cs_sqnum and lhead is c->lhead_lnum (as a position in    *)
(* log) and c->lhead_offs.                                                 *)

REPLAY_DELETION == 1
REPLAY_REF == 2
SQNUM_WATERMARK == 2147483647

ALIGN(x, a) == ((x + a - 1) \div a) * a

NoReplay ==
    [phase |-> "idle", buds |-> <<>>, scan |-> [l \in BudLebs |-> <<>>], tree |-> <<>>,
     next |-> 0, applied |-> <<>>, err |-> 0, highest_inum |-> 0, max_sqnum |-> 0,
     nbufs |-> {}, cs_sqnum |-> 0, log |-> <<>>, lpos |-> 1, lhead |-> <<1, 0>>,
     lprops |-> [l \in BudLebs |->
                    [free |-> Geom.leb_size - BudStart, dirty |-> 0, taken |-> FALSE,
                     flags |-> {}]]]

ReplayEntry(lnum, offs, len, sqnum, flags, key, nm, old_size, new_size, free, dirty) ==
    [lnum |-> lnum, offs |-> offs, len |-> len, sqnum |-> sqnum, flags |-> flags,
     key |-> key, nm |-> nm, old_size |-> old_size, new_size |-> new_size,
     free |-> free, dirty |-> dirty]

(* an entry linked beside the entry of the same sqnum *)
rb_link_node_dup(tree, r) ==
    LET less == Cardinality({i \in 1..Len(tree) : tree[i].sqnum < r.sqnum})
    IN  [err |-> 0,
         tree |-> SubSeq(tree, 1, less) \o <<r>> \o SubSeq(tree, less + 1, Len(tree))]

(* the walk down c->replay_tree and rb_link_node: the entry goes after the *)
(* entries of smaller sqnum, a second entry of the same sqnum is refused   *)
rb_link_node(tree, r) ==
    LET less == Cardinality({i \in 1..Len(tree) : tree[i].sqnum < r.sqnum})
    IN  IF \E i \in 1..Len(tree) : tree[i].sqnum = r.sqnum
        THEN [err |-> -EINVAL, tree |-> tree]
        ELSE [err |-> 0,
              tree |-> SubSeq(tree, 1, less) \o <<r>> \o SubSeq(tree, less + 1, Len(tree))]

(* an entry linked where the walk ended, whatever its sqnum *)
insert_node_unordered(rp, lnum, offs, len, key, sqnum, deletion, used, old_size, new_size) ==
    [rp |-> [rp EXCEPT !.tree = Append(@,
                ReplayEntry(lnum, offs, len, sqnum, IF deletion THEN REPLAY_DELETION ELSE 0,
                            key, <<>>, old_size, new_size, 0, 0))],
     err |-> 0, used |-> IF deletion THEN used ELSE used + ALIGN(len, 8)]

insert_node(rp, lnum, offs, len, key, sqnum, deletion, used, old_size, new_size) ==
    LET r1 == [rp EXCEPT !.highest_inum =
                   IF key_ino(key) >= @ THEN key_ino(key) ELSE @]
        t == rb_link_node(r1.tree,
                 ReplayEntry(lnum, offs, len, sqnum, IF deletion THEN REPLAY_DELETION ELSE 0,
                             key, <<>>, old_size, new_size, 0, 0))
    IN  IF t.err # 0 THEN [rp |-> r1, err |-> t.err, used |-> used]
        ELSE [rp |-> [r1 EXCEPT !.tree = t.tree], err |-> 0,
              used |-> IF deletion THEN used ELSE used + ALIGN(len, 8)]

(* an insert_dent that counts the space of deletion entries as used *)
insert_dent_counts(rp, lnum, offs, len, key, name, sqnum, deletion, used) ==
    LET r1 == [rp EXCEPT !.highest_inum =
                   IF key_ino(key) >= @ THEN key_ino(key) ELSE @]
        t == rb_link_node(r1.tree,
                 ReplayEntry(lnum, offs, len, sqnum, IF deletion THEN REPLAY_DELETION ELSE 0,
                             key, name, 0, 0, 0, 0))
    IN  IF t.err # 0 THEN [rp |-> r1, err |-> t.err, used |-> used]
        ELSE [rp |-> [r1 EXCEPT !.tree = t.tree, !.nbufs = @ \cup {sqnum}], err |-> 0,
              used |-> used + ALIGN(len, 8)]

insert_dent(rp, lnum, offs, len, key, name, sqnum, deletion, used) ==
    LET r1 == [rp EXCEPT !.highest_inum =
                   IF key_ino(key) >= @ THEN key_ino(key) ELSE @]
        t == rb_link_node(r1.tree,
                 ReplayEntry(lnum, offs, len, sqnum, IF deletion THEN REPLAY_DELETION ELSE 0,
                             key, name, 0, 0, 0, 0))
    IN  IF t.err # 0 THEN [rp |-> r1, err |-> t.err, used |-> used]
        ELSE [rp |-> [r1 EXCEPT !.tree = t.tree, !.nbufs = @ \cup {sqnum}], err |-> 0,
              used |-> IF deletion THEN used ELSE used + ALIGN(len, 8)]

insert_ref_node(rp, lnum, offs, sqnum, free, dirty) ==
    LET t == rb_link_node(rp.tree,
                 ReplayEntry(lnum, offs, 0, sqnum, REPLAY_REF, highest_ino_key(-1), <<>>,
                             0, 0, free, dirty))
    IN  IF t.err # 0 THEN [rp |-> rp, err |-> t.err]
        ELSE [rp |-> [rp EXCEPT !.tree = t.tree], err |-> 0]

(* the body of the loop of replay_bud for one scanned node *)
replay_snod(rp, lnum, snod, used) ==
    LET r1 == [rp EXCEPT !.max_sqnum = IF snod.sqnum > @ THEN snod.sqnum ELSE @]
        type == key_type(snod.key)
    IN  IF snod.sqnum >= SQNUM_WATERMARK THEN [rp |-> rp, err |-> -EINVAL, used |-> used]
        ELSE IF type = UBIFS_INO_KEY
        THEN insert_node(r1, lnum, snod.offs, snod.len, snod.key, snod.sqnum,
                         snod.nlink = 0, used, 0, snod.new_size)
        ELSE IF type = UBIFS_DATA_KEY
        THEN insert_node(r1, lnum, snod.offs, snod.len, snod.key, snod.sqnum,
                         FALSE, used, 0, snod.new_size)
        ELSE IF type \in {UBIFS_DENT_KEY, UBIFS_XENT_KEY}
        THEN IF ubifs_validate_entry(snod) # 0
             THEN [rp |-> r1, err |-> -EINVAL, used |-> used]
             ELSE insert_dent(r1, lnum, snod.offs, snod.len, snod.key, snod.name,
                              snod.sqnum, snod.inum = 0, used)
        ELSE IF type = UBIFS_TRUN_KEY
        THEN IF \/ snod.old_size < 0 \/ snod.old_size > Geom.max_inode_sz
                \/ snod.new_size < 0 \/ snod.new_size > Geom.max_inode_sz
                \/ snod.old_size <= snod.new_size
             THEN [rp |-> r1, err |-> -EINVAL, used |-> used]
             ELSE insert_node(r1, lnum, snod.offs, snod.len, snod.key, snod.sqnum,
                              TRUE, used, snod.old_size, snod.new_size)
        ELSE [rp |-> r1, err |-> -EINVAL, used |-> used]

RECURSIVE replay_snods(_, _, _, _)
replay_snods(rp, lnum, nodes, used) ==
    IF nodes = <<>> THEN [rp |-> rp, err |-> 0, used |-> used]
    ELSE Let(replay_snod(rp, lnum, Head(nodes), used), LAMBDA r:
             IF r.err # 0 THEN r ELSE replay_snods(r.rp, lnum, Tail(nodes), r.used))

replay_bud(rp, lnum, offs, jhead) ==
    LET nodes == rp.scan[lnum]
        endpt == IF nodes = <<>> THEN offs
                 ELSE nodes[Len(nodes)].offs + ALIGN(nodes[Len(nodes)].len, 8) IN
    Let(replay_snods(rp, lnum, nodes, 0), LAMBDA r:
        IF r.err # 0 THEN [rp |-> r.rp, err |-> r.err, free |-> 0, dirty |-> 0]
        ELSE [rp |-> r.rp, err |-> 0,
              free |-> Geom.leb_size - endpt, dirty |-> endpt - offs - r.used])

(* one pass of the loop of replay_buds, for the bud b *)
replay_buds_step(rp, b) ==
    Let(replay_bud(rp, b.lnum, b.start, b.jhead), LAMBDA r:
        IF r.err # 0 THEN [rp |-> r.rp, err |-> r.err]
        ELSE insert_ref_node(r.rp, b.lnum, b.start, b.sqnum, r.free, r.dirty))

(* a set_bud_lprops that writes LPROPS_TAKEN over the flags of the LEB *)
set_bud_lprops_taken(rp, r) ==
    LET lp == rp.lprops[r.lnum]
        dirty == IF r.offs = 0 /\ (lp.free # Geom.leb_size \/ lp.dirty # 0)
                 THEN lp.dirty - (Geom.leb_size - lp.free) ELSE lp.dirty
    IN  [rp |-> [rp EXCEPT !.lprops[r.lnum] =
                    [free |-> r.free, dirty |-> dirty + r.dirty, taken |-> TRUE,
                     flags |-> {}]],
         err |-> 0]

(* lp->flags is the bit LPROPS_TAKEN (taken) and the other bits (flags) *)
set_bud_lprops(rp, r) ==
    LET lp == rp.lprops[r.lnum]
        dirty == IF r.offs = 0 /\ (lp.free # Geom.leb_size \/ lp.dirty # 0)
                 THEN lp.dirty - (Geom.leb_size - lp.free) ELSE lp.dirty
    IN  [rp |-> [rp EXCEPT !.lprops[r.lnum] =
                    [free |-> r.free, dirty |-> dirty + r.dirty, taken |-> TRUE,
                     flags |-> lp.flags]],
         err |-> 0]

data_key_init(inum, block) == <<inum, UBIFS_DATA_KEY, block>>

trun_remove_range(st, r) ==
    LET min_blk == r.new_size \div UBIFS_BLOCK_SIZE +
                   (IF r.new_size % UBIFS_BLOCK_SIZE # 0 THEN 1 ELSE 0)
        max_blk == r.old_size \div UBIFS_BLOCK_SIZE -
                   (IF r.old_size % UBIFS_BLOCK_SIZE = 0 THEN 1 ELSE 0)
    IN  ubifs_tnc_remove_range(st, data_key_init(key_ino(r.key), min_blk),
                               data_key_init(key_ino(r.key), max_blk))

apply_replay_entry(st, rp, r) ==
    LET s0 == [st EXCEPT !.replay_sqnum = r.sqnum]
        deletion == r.flags = REPLAY_DELETION IN
    Let(set_bud_lprops(rp, r), LAMBDA lp:
    Let(     IF is_hash_key(r.key)
             THEN IF deletion THEN ubifs_tnc_remove_nm(s0, r.key, r.nm)
                  ELSE ubifs_tnc_add_nm(s0, r.key, r.lnum, r.offs, r.len, r.nm)
             ELSE IF deletion
             THEN IF key_type(r.key) = UBIFS_INO_KEY
                  THEN ubifs_tnc_remove_ino(s0, key_ino(r.key))
                  ELSE IF key_type(r.key) = UBIFS_TRUN_KEY
                  THEN trun_remove_range(s0, r)
                  ELSE ubifs_tnc_remove(s0, r.key)
             ELSE ubifs_tnc_add(s0, r.key, r.lnum, r.offs, r.len), LAMBDA t:
        IF r.flags = REPLAY_REF THEN [st |-> s0, rp |-> lp.rp, err |-> lp.err]
        ELSE [st |-> t.st, rp |-> rp, err |-> t.err]))

destroy_replay_tree(rp) ==
    [rp EXCEPT !.tree = <<>>,
               !.nbufs = @ \ {rp.tree[i].sqnum : i \in
                                {j \in 1..Len(rp.tree) :
                                    key_type(rp.tree[j].key) = UBIFS_DENT_KEY}}]

----------------------------------------------------------------------------
(* The state machine *)

MaxOps == 3

(* the callers of the TNC; outside an operation a caller is idle *)
Threads == {1, 2}
NoZbr ==
    [copy |-> TRUE, zn |-> NULL, n |-> 0, zbr |-> Zbranch(<<0, 0, 0>>, 0, 0, 0, NULL),
     freed |-> FALSE]
Idle == [pc |-> "idle", op |-> "", m |-> NoNode, stage |-> 0, next |-> "idle", zbr |-> NoZbr]
NoCallers == [t \in Threads |-> Idle]

St ==
    [zn |-> znodes, zroot |-> zroot, old_idx |-> old_idx, oops |-> oops,
     dirt |-> dirt, dirty_zn_cnt |-> dirty_zn_cnt, clean_zn_cnt |-> clean_zn_cnt,
     failat |-> 0, replaying |-> FALSE, replay_sqnum |-> 0]

(* the space accounting and the znode counters a TNC function leaves *)
Accounted(st) ==
    /\ dirt' = st.dirt
    /\ dirty_zn_cnt' = st.dirty_zn_cnt
    /\ clean_zn_cnt' = st.clean_zn_cnt

(* nothing charged and no znode in memory *)
NoAccount ==
    /\ dirt = [l \in Geom.main_first..(Geom.leb_cnt - 1) |-> 0]
    /\ dirty_zn_cnt = 0
    /\ clean_zn_cnt = 0

Pos(lnum, offs, len) == <<lnum, offs, len>>
NotFound == Pos(0, 0, 0)
PosOf(m) == Pos(m.lnum, m.offs, m.len)
Ident(m) == <<m.key, m.name>>
Idents == {Ident(m) : m \in Media}
Keys == {m.key : m \in Media}
PlainKeys == {k \in Keys : ~is_hash_key(k)}
Names == {m.name : m \in {x \in Media : is_hash_key(x.key)}}

(* the leaf branches an index image refers to, through its sub-images *)
RECURSIVE ImageLeaves(_)
ImageLeaves(idx) ==
    IF idx.level = 0 THEN {idx.branches[i] : i \in 1..Len(idx.branches)}
    ELSE UNION {ImageLeaves(CHOOSE x \in FlashIdx :
                                x.lnum = idx.branches[i].lnum /\ x.offs = idx.branches[i].offs)
                : i \in 1..Len(idx.branches)}

MapOfImage(idx) ==
    [id \in Idents |->
        IF \E b \in ImageLeaves(idx) : Ident(FlashNode(b.lnum, b.offs)) = id
        THEN Let(CHOOSE b \in ImageLeaves(idx) : Ident(FlashNode(b.lnum, b.offs)) = id, LAMBDA b:
                 Pos(b.lnum, b.offs, b.len))
        ELSE NotFound]

Init ==
    /\ znodes = <<>>
    /\ \E r \in Roots :
          /\ zroot = Zbranch(<<0, 0, 0>>, r.lnum, r.offs, r.len, NULL)
          /\ map = MapOfImage(r)
    /\ old_idx = {}
    /\ oops = FALSE
    /\ NoAccount
    /\ last = [op |-> "mount", a |-> <<>>, ret |-> 0]
    /\ ops = 0
    /\ replay = NoReplay
    /\ tnc_mutex = 0
    /\ thr = NoCallers

(* an operation returns: its effects become the state *)
Return(st, op, a, ret, m) ==
    /\ znodes' = st.zn
    /\ zroot' = st.zroot
    /\ old_idx' = st.old_idx
    /\ oops' = st.oops
    /\ Accounted(st)
    /\ last' = [op |-> op, a |-> a, ret |-> ret]
    /\ map' = m
    /\ ops' = ops + 1
    /\ replay' = replay
    /\ UNCHANGED <<tnc_mutex, thr>>

Ready == ~oops /\ ops < MaxOps

Lookup ==
    \E key \in PlainKeys :
        /\ Ready
        /\ \E r \in {ubifs_tnc_locate(St, key)} :
               Return(r.st, "lookup", <<key, Pos(r.lnum, r.offs, r.node.len)>>, r.err, map)

Add ==
    \E m \in Media :
        /\ Ready
        /\ ~is_hash_key(m.key)
        /\ \E r \in {ubifs_tnc_add(St, m.key, m.lnum, m.offs, m.len)} :
               Return(r.st, "add", <<m.key, PosOf(m)>>, r.err,
                      [map EXCEPT ![Ident(m)] = PosOf(m)])

Remove ==
    \E key \in PlainKeys :
        /\ Ready
        /\ \E r \in {ubifs_tnc_remove(St, key)} :
               Return(r.st, "remove", <<key>>, r.err,
                      [map EXCEPT ![<<key, <<>>>>] = NotFound])

(* garbage collection moved the node old to the position of new *)
Replace ==
    \E old \in Media, new \in Media :
        /\ Ready
        /\ ~is_hash_key(old.key)
        /\ Ident(old) = Ident(new) /\ PosOf(old) # PosOf(new)
        /\ \E r \in {ubifs_tnc_replace(St, new.key, old.lnum, old.offs,
                                      new.lnum, new.offs, new.len)} :
               Return(r.st, "replace", <<new.key, PosOf(old), PosOf(new)>>, r.err,
                      IF map[Ident(old)] = PosOf(old)
                      THEN [map EXCEPT ![Ident(new)] = PosOf(new)] ELSE map)

(* spec-modelled start of a commit: every dirty znode is put on the cnext  *)
(* list and flagged COW                                                    *)
CommitStart ==
    /\ Ready
    /\ \A x \in DOMAIN znodes : ~znodes[x].cnext
    /\ \E x \in DOMAIN znodes : znodes[x].dirty
    /\ Return([St EXCEPT !.zn = [x \in DOMAIN znodes |->
                   IF znodes[x].dirty
                   THEN [znodes[x] EXCEPT !.cow = TRUE, !.cnext = TRUE]
                   ELSE znodes[x]]],
              "commit_start", <<>>, 0, map)

NextMap == Lookup \/ Add \/ Remove \/ Replace \/ CommitStart

SpecMap == Init /\ [][NextMap]_vars


(* the keys a truncation or an inode removal passes as range bounds *)
RangeKeys ==
    {N_D10.key, N_D11.key, <<1, UBIFS_DATA_KEY, MaxDisc>>, highest_ino_key(2)}

InRange(lo, hi) == {id \in Idents : key_in_range(id[1], lo, hi)}

RemoveRange ==
    \E lo \in RangeKeys, hi \in RangeKeys :
        /\ Ready
        /\ \E r \in {ubifs_tnc_remove_range(St, lo, hi)} :
               Return(r.st, "remove_range", <<lo, hi>>, r.err,
                      [id \in Idents |->
                          IF id \in InRange(lo, hi) THEN NotFound ELSE map[id]])

NextRange == NextMap \/ RemoveRange

SpecRange == Init /\ [][NextRange]_vars

HashedMedia == {m \in Media : is_hash_key(m.key)}

LookupNm ==
    \E m \in HashedMedia :
        /\ Ready
        /\ \E r \in {ubifs_tnc_lookup_nm(St, m.key, m.name)} :
               Return(r.st, "lookup_nm", <<m.key, m.name, PosOf(r.node)>>, r.err, map)

AddNm ==
    \E m \in HashedMedia :
        /\ Ready
        /\ \E r \in {ubifs_tnc_add_nm(St, m.key, m.lnum, m.offs, m.len, m.name)} :
               Return(r.st, "add_nm", <<m.key, m.name, PosOf(m)>>, r.err,
                      [map EXCEPT ![Ident(m)] = PosOf(m)])

RemoveNm ==
    \E m \in HashedMedia :
        /\ Ready
        /\ \E r \in {ubifs_tnc_remove_nm(St, m.key, m.name)} :
               Return(r.st, "remove_nm", <<m.key, m.name>>, r.err,
                      [map EXCEPT ![Ident(m)] = NotFound])

ReplaceNm ==
    \E old \in HashedMedia, new \in HashedMedia :
        /\ Ready
        /\ Ident(old) = Ident(new) /\ PosOf(old) # PosOf(new)
        /\ \E r \in {ubifs_tnc_replace(St, new.key, old.lnum, old.offs,
                                      new.lnum, new.offs, new.len)} :
               Return(r.st, "replace", <<new.key, PosOf(old), PosOf(new)>>, r.err,
                      IF map[Ident(old)] = PosOf(old)
                      THEN [map EXCEPT ![Ident(new)] = PosOf(new)] ELSE map)

NextNm == LookupNm \/ AddNm \/ RemoveNm

SpecNm == Init /\ [][NextNm]_vars

Inums == {key_ino(k) : k \in Keys}

(* what removing inode inum is to remove: its inode key, its data keys and *)
(* the entries that point to it                                            *)
OfInode(inum) ==
    {Ident(m) : m \in {x \in Media :
        \/ ~is_hash_key(x.key) /\ key_ino(x.key) = inum
        \/ is_hash_key(x.key) /\ x.inum = inum}}

RemoveIno ==
    \E inum \in Inums :
        /\ Ready
        /\ \E r \in {ubifs_tnc_remove_ino(St, inum)} :
               Return(r.st, "remove_ino", <<inum>>, r.err,
                      [id \in Idents |->
                          IF id \in OfInode(inum) THEN NotFound ELSE map[id]])

(* readdir: the entry after the one with the given key and name *)
NextEnt ==
    \E m \in HashedMedia :
        /\ Ready
        /\ \E r \in {ubifs_tnc_next_ent(St, m.key, m.name)} :
               Return(r.st, "next_ent", <<m.key, m.name, PosOf(r.dent)>>, r.err, map)

Next == NextRange \/ NextNm \/ ReplaceNm \/ RemoveIno \/ NextEnt

Spec == Init /\ [][Next]_vars

----------------------------------------------------------------------------
(* What a caller observes *)

Failed == Pos(-1, -1, -1)

(* the position ubifs_tnc_locate reports for key in state st *)
Located(st, key) ==
    Let(ubifs_tnc_locate(st, key), LAMBDA r:
        IF r.err = 0 THEN Pos(r.lnum, r.offs, r.node.len)
        ELSE IF r.err = -ENOENT THEN NotFound
        ELSE Failed)

(* the position ubifs_tnc_lookup_nm finds for the entry (key, nm) *)
LocatedNm(st, key, nm) ==
    Let(ubifs_tnc_lookup_nm(st, key, nm), LAMBDA r:
        IF r.err = 0 THEN PosOf(r.node)
        ELSE IF r.err = -ENOENT THEN NotFound
        ELSE Failed)

Resolved(st, id) ==
    IF is_hash_key(id[1]) THEN LocatedNm(st, id[1], id[2]) ELSE Located(st, id[1])

(* C1: on non-hashed keys the tree is a map from key to node position:     *)
(* after any sequence of add, remove and replace, lookup(k) reports the    *)
(* position set by the most recent add or successful replace of k, and     *)
(* NotFound when k was never added or was last removed.                    *)
C1_LookupRefinesMap ==
    ~oops =>
        /\ \A key \in PlainKeys : Located(St, key) = map[<<key, <<>>>>]
        /\ last.op = "lookup" =>
              /\ last.ret \in {0, -ENOENT}
              /\ last.ret = 0 => last.a[2] = map[<<last.a[1], <<>>>>]
              /\ last.ret = -ENOENT => map[<<last.a[1], <<>>>>] = NotFound

(* a lookup found a key at the position a replace gave it, in a tree whose *)
(* root was split and whose znodes were copied during a commit             *)
C1_Witness ==
    /\ last.op = "lookup" /\ last.ret = 0
    /\ last.a[2] = PosOf(M_D10)
    /\ ~oops
    /\ zroot.len = 0

(* C3: after remove_range(lo, hi) returns success, for any lo and hi (also *)
(* lo > hi, also bounds that are not keys of the tree), every key that was *)
(* present with lo <= key <= hi is NotFound and every key outside [lo, hi] *)
(* is still found at the position it had before.                           *)
C3_RemoveRangeExact ==
    [][(last'.op = "remove_range" /\ last'.ret = 0 /\ ~oops') =>
          \A id \in Idents :
              Resolved(St', id) =
                  IF key_in_range(id[1], last'.a[1], last'.a[2]) THEN NotFound
                  ELSE Resolved(St, id)]_vars

HashedIdents == {Ident(m) : m \in HashedMedia}

(* C4: entries that share a hashed key are told apart by name: after any   *)
(* sequence of add_nm and remove_nm, lookup_nm(key, name) finds the entry  *)
(* most recently added under that name iff the last operation on (key,     *)
(* name) was an add, and removing one name leaves every other colliding    *)
(* entry resolvable, whichever leaves the entries are in.                  *)
C4_NamesResolve ==
    ~oops => \A id \in HashedIdents : LocatedNm(St, id[1], id[2]) = map[id]

----------------------------------------------------------------------------
(* The shape of the tree *)

(* the znodes reachable from x through child pointers *)
RECURSIVE Reach(_, _)
Reach(zn, x) ==
    IF x = NULL THEN {}
    ELSE {x} \cup
         (IF zn[x].level # 0
          THEN UNION {Reach(zn, zn[x].zbranch[i].znode) : i \in 1..Len(zn[x].zbranch)}
          ELSE {})

Tree == Reach(znodes, zroot.znode)

(* the leftmost key below an index node image *)
RECURSIVE ImageLeftmost(_, _)
ImageLeftmost(lnum, offs) ==
    Let(CHOOSE x \in FlashIdx : x.lnum = lnum /\ x.offs = offs, LAMBDA idx:
        IF idx.level = 0 THEN idx.branches[1].key
        ELSE ImageLeftmost(idx.branches[1].lnum, idx.branches[1].offs))

(* the leftmost key of the subtree of znode x *)
RECURSIVE Leftmost(_, _)
Leftmost(zn, x) ==
    LET zbr == zn[x].zbranch[1]
    IN  IF zn[x].level = 0 THEN zbr.key
        ELSE IF zbr.znode # NULL THEN Leftmost(zn, zbr.znode)
        ELSE ImageLeftmost(zbr.lnum, zbr.offs)

(* the branches of the tree that refer to znode x, as <<parent, slot>> *)
Referrers(x) ==
    {<<p, i - 1>> : p \in Tree, i \in 1..fanout} \cap
    {r \in Tree \X (0..(fanout - 1)) :
        /\ znodes[r[1]].level # 0
        /\ r[2] < Len(znodes[r[1]].zbranch)
        /\ znodes[r[1]].zbranch[r[2] + 1].znode = x}

(* C6: after every completed operation the branch keys of every znode of   *)
(* the tree are in non-decreasing order, and two adjacent branches have    *)
(* equal keys only when the key is a hashed key.                           *)
C6_KeysOrdered ==
    ~oops => \A x \in Tree : ~BadKeyOrder(znodes[x].zbranch)

(* C7: after every completed operation, the key of every non-leaf branch   *)
(* whose child is loaded equals the leftmost key of the child's subtree.   *)
C7_BranchKeyIsLeftmost ==
    ~oops =>
        \A x \in Tree : \A i \in 1..Len(znodes[x].zbranch) :
            (znodes[x].level # 0 /\ znodes[x].zbranch[i].znode # NULL) =>
                znodes[x].zbranch[i].key = Leftmost(znodes, znodes[x].zbranch[i].znode)

(* C7 as the code keeps it: the key of a non-leaf branch whose child is    *)
(* loaded is a lower bound of the leftmost key of the child's subtree.     *)
C7_BranchKeyBelowLeftmost ==
    ~oops =>
        \A x \in Tree : \A i \in 1..Len(znodes[x].zbranch) :
            (znodes[x].level # 0 /\ znodes[x].zbranch[i].znode # NULL) =>
                keys_cmp(znodes[x].zbranch[i].key,
                         Leftmost(znodes, znodes[x].zbranch[i].znode)) <= 0

(* C8: after every completed operation every loaded non-root znode of the  *)
(* tree is referred to by exactly one branch, the branch iip of its        *)
(* parent, and the root has no parent.                                     *)
C8_OneParentBranch ==
    ~oops =>
        \A x \in Tree :
            IF x = zroot.znode THEN znodes[x].parent = NULL
            ELSE Referrers(x) = {<<znodes[x].parent, znodes[x].iip>>}

(* C9: every znode of the tree has 0 < child_cnt <= fanout after every     *)
(* completed operation, and removing a key, the only remaining key of the  *)
(* tree included, completes without touching a znode that has no branch.   *)
C9_NeverEmpty ==
    /\ last.op = "remove" => ~oops
    /\ ~oops => \A x \in Tree : 0 < child_cnt(znodes[x]) /\ child_cnt(znodes[x]) <= fanout

----------------------------------------------------------------------------
(* Copy-on-write *)

(* the keys and positions of the branch array of znode z *)
BranchImage(z) ==
    [i \in 1..Len(z.zbranch) |->
        <<z.zbranch[i].key, z.zbranch[i].lnum, z.zbranch[i].offs, z.zbranch[i].len>>]

(* the branches of the tree, zroot included, as <<parent, slot>>, whose    *)
(* child is loaded and flagged COW while the znode holding the branch is   *)
(* not: the branches the code hands to dirty_cow_znode                     *)
CowBranches ==
    {b \in ({NULL} \cup Tree) \X (0..(fanout - 1)) :
        /\ IF b[1] = NULL THEN b[2] = 0
           ELSE /\ znodes[b[1]].level # 0
                /\ b[2] < Len(znodes[b[1]].zbranch)
                /\ ~znodes[b[1]].cow
        /\ ZbrAt(St, b[1], b[2]).znode # NULL
        /\ znodes[ZbrAt(St, b[1], b[2]).znode].cow}

(* what dirty_cow_znode does to the branch b of a COW znode *)
CowClones(b) ==
    LET zbr == ZbrAt(St, b[1], b[2])
        orig == zbr.znode IN
    Let(dirty_cow_znode(St, b[1], b[2]), LAMBDA r:
    LET new == ZbrAt(r.st, b[1], b[2])
        kids == IF znodes[orig].level # 0
                THEN {znodes[orig].zbranch[i].znode : i \in 1..Len(znodes[orig].zbranch)}
                     \ {NULL}
                ELSE {} IN
        /\ r.err = 0
        /\ r.zn \notin DOMAIN znodes
        /\ new.znode = r.zn
        /\ <<new.lnum, new.offs, new.len>> = <<0, 0, 0>>
        /\ r.st.zn[r.zn].dirty /\ ~r.st.zn[r.zn].cow
        /\ BranchImage(r.st.zn[r.zn]) = BranchImage(znodes[orig])
        /\ \A k \in kids : r.st.zn[k].parent = r.zn
        /\ r.st.zn[orig].obsolete /\ r.st.zn[orig].cow
        /\ BranchImage(r.st.zn[orig]) = BranchImage(znodes[orig])
        /\ r.st.old_idx = old_idx \cup (IF zbr.len # 0 THEN {<<zbr.lnum, zbr.offs>>} ELSE {}))

(* C5: a znode flagged COW is never changed in place: dirty_cow_znode on   *)
(* its branch installs a fresh dirty, non-COW znode in the branch,         *)
(* reparents the loaded children, marks the original obsolete, records     *)
(* the original's position in the old index iff the branch had len # 0,    *)
(* and clears the branch image; and no step of any operation changes the   *)
(* child_cnt or the keys and positions of a znode that is flagged COW.     *)
C5_CowNeverMutated ==
    [][/\ ~oops => \A b \in CowBranches : CowClones(b)
       /\ \A x \in DOMAIN znodes :
             znodes[x].cow =>
                 /\ x \in DOMAIN znodes'
                 /\ znodes'[x].cow
                 /\ BranchImage(znodes'[x]) = BranchImage(znodes[x])]_vars

C5_Witness ==
    /\ ~oops
    /\ last.op \in {"add", "remove"} /\ last.ret = 0
    /\ old_idx # {}
    /\ \E x \in DOMAIN znodes :
          /\ znodes[x].cow /\ znodes[x].obsolete /\ x \notin Tree
          /\ \E y \in Tree : /\ znodes[y].dirty /\ ~znodes[y].cow
                             /\ znodes[y].level = znodes[x].level
                             /\ BranchImage(znodes[y]) # BranchImage(znodes[x])

C7_Witness ==
    /\ ~oops
    /\ last.op \in {"remove", "add"} /\ last.ret = 0
    /\ \E x \in Tree : \E i \in 1..Len(znodes[x].zbranch) :
          /\ znodes[x].level # 0 /\ znodes[x].zbranch[i].znode # NULL
          /\ keys_cmp(znodes[x].zbranch[i].key,
                      Leftmost(znodes, znodes[x].zbranch[i].znode)) < 0

C8_Witness ==
    /\ ~oops
    /\ last.op = "add" /\ last.ret = 0
    /\ znodes[zroot.znode].level = 2
    /\ \E x \in Tree : /\ znodes[x].level = 0 /\ znodes[x].iip > 0
                       /\ znodes[znodes[x].parent].iip > 0

(* C10: remove_ino(i) completes and removes exactly the inode key of i,    *)
(* every data key of i and every directory or xattr entry pointing to i;   *)
(* every other key resolves as before.                                     *)
C10_RemoveInoExact ==
    [][last'.op = "remove_ino" =>
          /\ ~oops' /\ last'.ret = 0
          /\ \A id \in Idents :
                Resolved(St', id) =
                    IF id \in OfInode(last'.a[1]) THEN NotFound ELSE Resolved(St, id)]_vars

----------------------------------------------------------------------------
(* Journal replay as steps of ubifs_replay_journal, from the point where   *)
(* the log has been read: c->replay_buds lists the buds in the order of    *)
(* their reference nodes, c->replaying is set.                             *)

(* the nodes journal head lnum wrote, in the order ubifs_scan finds them *)
BudNodes(head, lnum) ==
    LET Mine(node) == head[node.sqnum - JournalSqnum] = lnum
    IN  SelectSeq([k \in 1..MaxWrites |-> Wr(k, lnum)], Mine)

Bud(lnum) ==
    [lnum |-> lnum, start |-> BudStart, jhead |-> lnum - 5, sqnum |-> RefSqnum(lnum)]

InitReplay ==
    /\ znodes = <<>>
    /\ \E r \in Roots :
          /\ zroot = Zbranch(<<0, 0, 0>>, r.lnum, r.offs, r.len, NULL)
          /\ map = MapOfImage(r)
    /\ old_idx = {}
    /\ oops = FALSE
    /\ NoAccount
    /\ last = [op |-> "mount", a |-> <<>>, ret |-> 0]
    /\ ops = 0
    /\ tnc_mutex = 0
    /\ thr = NoCallers
    /\ \E head \in [1..MaxWrites -> BudLebs], order \in {<<6, 7>>, <<7, 6>>} :
          replay = [NoReplay EXCEPT
                       !.phase = "buds",
                       !.buds = <<Bud(order[1]), Bud(order[2])>>,
                       !.scan = [l \in BudLebs |-> BudNodes(head, l)]]

(* an `out:` path that leaves the replay tree and the bud list alone *)
ReplayOut_keep(rp, err) == [rp EXCEPT !.phase = "done", !.err = err]

(* the `out:` path of ubifs_replay_journal *)
ReplayOut(rp, err) ==
    [destroy_replay_tree(rp) EXCEPT !.phase = "done", !.buds = <<>>, !.err = err]

(* the nodes of the journal, the set the replay has to apply *)
Journal == UNION {{replay.scan[l][i] : i \in 1..Len(replay.scan[l])} : l \in BudLebs}

(* what a written node does to the reference map *)
Written1(m, node) ==
    IF key_type(node.key) = UBIFS_INO_KEY /\ node.nlink = 0
    THEN [id \in Idents |-> IF key_ino(id[1]) = key_ino(node.key) THEN NotFound ELSE m[id]]
    ELSE IF key_type(node.key) = UBIFS_TRUN_KEY
    THEN [id \in Idents |->
             IF /\ key_ino(id[1]) = key_ino(node.key) /\ key_type(id[1]) = UBIFS_DATA_KEY
                /\ key_block(id[1]) * UBIFS_BLOCK_SIZE >= node.new_size
                /\ key_block(id[1]) * UBIFS_BLOCK_SIZE < node.old_size
             THEN NotFound ELSE m[id]]
    ELSE IF is_hash_key(node.key) /\ node.inum = 0
    THEN [m EXCEPT ![Ident(node)] = NotFound]
    ELSE [m EXCEPT ![Ident(node)] = PosOf(node)]

(* the reference map after the nodes of S, taken in the order written *)
RECURSIVE JournalMap(_, _)
JournalMap(m, S) ==
    IF S = {} THEN m
    ELSE LET first == CHOOSE x \in S : \A y \in S : x.sqnum <= y.sqnum
         IN  JournalMap(Written1(m, first), S \ {first})

(* one pass of the loop of replay_buds *)
ReplayBud ==
    /\ replay.phase = "buds" /\ replay.buds # <<>> /\ ~oops
    /\ LET b == Head(replay.buds) IN
       \E r \in {replay_buds_step(replay, b)} :
           /\ replay' = IF r.err # 0 THEN ReplayOut(r.rp, r.err)
                        ELSE [r.rp EXCEPT !.buds = Tail(replay.buds),
                                          !.phase = IF Tail(replay.buds) = <<>>
                                                    THEN "apply" ELSE "buds",
                                          !.next = 1]
           /\ last' = [op |-> "replay_bud", a |-> <<b.lnum>>, ret |-> r.err]
    /\ UNCHANGED <<znodes, zroot, old_idx, oops, dirt, dirty_zn_cnt, clean_zn_cnt, map, ops, tnc_mutex, thr>>

(* one pass of the loop of apply_replay_tree *)
ApplyEntry ==
    /\ replay.phase = "apply" /\ replay.next <= Len(replay.tree) /\ ~oops
    /\ LET e == replay.tree[replay.next] IN
       \E r \in {apply_replay_entry([St EXCEPT !.replaying = TRUE], replay, e)} :
       LET r1 == [r.rp EXCEPT !.applied = Append(@, e.sqnum), !.next = @ + 1] IN
           /\ znodes' = r.st.zn
           /\ zroot' = r.st.zroot
           /\ old_idx' = r.st.old_idx
           /\ oops' = r.st.oops
           /\ Accounted(r.st)
           /\ replay' = IF r.err # 0 THEN ReplayOut(r1, r.err) ELSE r1
           /\ last' = [op |-> "replay", a |-> <<e.sqnum>>, ret |-> r.err]
    /\ UNCHANGED <<map, ops, tnc_mutex, thr>>

(* the replay tree has been applied: ubifs_replay_journal cleans up *)
ReplayDone ==
    /\ replay.phase = "apply" /\ replay.next > Len(replay.tree) /\ ~oops
    /\ replay' = ReplayOut(replay, 0)
    /\ map' = JournalMap(map, Journal)
    /\ last' = [op |-> "replay_journal", a |-> <<>>, ret |-> 0]
    /\ UNCHANGED <<znodes, zroot, old_idx, oops, dirt, dirty_zn_cnt, clean_zn_cnt, ops, tnc_mutex, thr>>

NextReplay == ReplayBud \/ ApplyEntry \/ ReplayDone

SpecReplay == InitReplay /\ [][NextReplay]_vars

(* the sqnums of the entries of the replay: every journal node and the     *)
(* reference node of every bud                                             *)
ReplaySqnums == {n.sqnum : n \in Journal} \cup {RefSqnum(l) : l \in BudLebs}

(* C2: the replay applies its entries, node entries and REF entries alike, *)
(* in strictly increasing sqnum order whatever the order the buds were     *)
(* scanned in, and the TNC it leaves resolves every key as the journal     *)
(* written in sqnum order does.                                            *)
C2_ReplayInSqnumOrder ==
    /\ \A i \in 1..Len(replay.applied) :
          /\ \A j \in 1..(i - 1) : replay.applied[j] < replay.applied[i]
          /\ replay.applied[i] \in ReplaySqnums
          /\ \A q \in ReplaySqnums :
                q < replay.applied[i] => \E j \in 1..(i - 1) : replay.applied[j] = q
    /\ (replay.phase = "done" /\ replay.err = 0 /\ ~oops) =>
          /\ {replay.applied[i] : i \in 1..Len(replay.applied)} = ReplaySqnums
          /\ \A id \in Idents : Resolved(St, id) = map[id]

C2_Witness ==
    /\ replay.phase = "done" /\ replay.err = 0 /\ ~oops
    /\ Len(replay.applied) = MaxWrites + 2
    /\ replay.scan[6] # <<>> /\ replay.scan[7] # <<>>
    /\ replay.scan[7][1].sqnum < replay.scan[6][Len(replay.scan[6])].sqnum
    /\ replay.scan[6][1].sqnum < replay.scan[7][Len(replay.scan[7])].sqnum

----------------------------------------------------------------------------
(* Truncation entries of the replay applied to the tree *)

(* the (old_size, new_size) of the truncation nodes replayed: three blocks *)
(* cut off, both sizes in the same block, one block cut off at a block     *)
(* boundary, everything cut off, a cut inside a block, one byte cut off    *)
TrunSizes ==
    {<<4 * UBIFS_BLOCK_SIZE, UBIFS_BLOCK_SIZE>>,
     <<2 * UBIFS_BLOCK_SIZE, UBIFS_BLOCK_SIZE + 1>>,
     <<2 * UBIFS_BLOCK_SIZE, UBIFS_BLOCK_SIZE>>,
     <<UBIFS_BLOCK_SIZE, 0>>,
     <<3 * UBIFS_BLOCK_SIZE, 1>>,
     <<UBIFS_BLOCK_SIZE + 1, UBIFS_BLOCK_SIZE>>}

(* the replay entry replay_bud makes of a truncation node *)
TrunEntry(inum, old_size, new_size) ==
    ReplayEntry(7, BudStart, UBIFS_TRUN_NODE_SZ, JournalSqnum, REPLAY_DELETION,
                <<inum, UBIFS_TRUN_KEY, 0>>, <<>>, old_size, new_size, 0, 0)

(* the blocks b with ceil(new_size / BS) <= b <= (old_size - 1) / BS *)
TrunBlocks(old_size, new_size) ==
    {b \in 0..MaxDisc :
        /\ (new_size + UBIFS_BLOCK_SIZE - 1) \div UBIFS_BLOCK_SIZE <= b
        /\ b <= (old_size - 1) \div UBIFS_BLOCK_SIZE}

TrunIdents(inum, old_size, new_size) ==
    {id \in Idents : /\ key_ino(id[1]) = inum /\ key_type(id[1]) = UBIFS_DATA_KEY
                     /\ key_block(id[1]) \in TrunBlocks(old_size, new_size)}

(* apply_replay_entry on a truncation entry *)
ApplyTrun ==
    \E inum \in {1, 2}, sz \in TrunSizes :
        /\ Ready
        /\ \E r \in {apply_replay_entry([St EXCEPT !.replaying = TRUE], replay,
                                        TrunEntry(inum, sz[1], sz[2]))} :
               Return(r.st, "trun", <<inum, sz[1], sz[2]>>, r.err,
                      [id \in Idents |->
                          IF id \in TrunIdents(inum, sz[1], sz[2]) THEN NotFound
                          ELSE map[id]])

NextTrun == Add \/ Remove \/ ApplyTrun

SpecTrun == Init /\ [][NextTrun]_vars

(* C11: applying a truncation entry (old_size, new_size) of inode i,       *)
(* 0 <= new_size < old_size, removes exactly the data keys of i whose      *)
(* block b has ceil(new_size / BS) <= b <= (old_size - 1) / BS and keeps   *)
(* every other key; nothing is removed when that block range is empty.     *)
C11_TrunRemovesBlocks ==
    [][(last'.op = "trun" /\ last'.ret = 0 /\ ~oops') =>
          \A id \in Idents :
              Resolved(St', id) =
                  IF id \in TrunIdents(last'.a[1], last'.a[2], last'.a[3]) THEN NotFound
                  ELSE Resolved(St, id)]_vars

----------------------------------------------------------------------------
(* Replay of directory entries over an index with dangling branches *)

InitRun ==
    /\ znodes = <<>>
    /\ \E r \in RunRoots :
          /\ zroot = Zbranch(<<0, 0, 0>>, r.lnum, r.offs, r.len, NULL)
          /\ map = MapOfImage(r)
    /\ old_idx = {}
    /\ oops = FALSE
    /\ NoAccount
    /\ last = [op |-> "mount", a |-> <<>>, ret |-> 0]
    /\ ops = 0
    /\ replay = NoReplay
    /\ tnc_mutex = 0
    /\ thr = NoCallers

(* the replay entry insert_dent makes of the directory entry node m *)
DentEntry(m) ==
    ReplayEntry(m.lnum, m.offs, m.len, m.sqnum,
                IF m.inum = 0 THEN REPLAY_DELETION ELSE 0, m.key, m.name, 0, 0, 0, 0)

ReplayReady == ~oops /\ ops < MaxReplayed

(* apply_replay_entry on the entry of a directory entry node *)
ReplayAddNm ==
    \E j \in 1..Len(ReplayNames) :
        /\ ReplayReady
        /\ \E m \in {ReplayDent(ops + 1, j)} :
           \E r \in {apply_replay_entry([St EXCEPT !.replaying = TRUE], replay,
                                        DentEntry(m))} :
               Return(r.st, "replay_add_nm", <<m.key, m.name, PosOf(m), m.sqnum>>,
                      r.err, map)

(* apply_replay_entry on the entry of a deletion entry node *)
ReplayRemoveNm ==
    \E j \in 1..Len(ReplayNames) :
        /\ ReplayReady
        /\ \E m \in {[ReplayDent(ops + 1, j) EXCEPT !.inum = 0]} :
           \E r \in {apply_replay_entry([St EXCEPT !.replaying = TRUE], replay,
                                        DentEntry(m))} :
               Return(r.st, "replay_remove_nm", <<m.key, m.name, PosOf(m), m.sqnum>>,
                      r.err, map)

NextRun == ReplayAddNm \/ ReplayRemoveNm

SpecRun == InitRun /\ [][NextRun]_vars

(* the index node image a branch refers to *)
ImageAt(zbr) == CHOOSE x \in FlashIdx : x.lnum = zbr.lnum /\ x.offs = zbr.offs

(* the leaf branches of the tree, those of unloaded subtrees included *)
TreeLeaves(zn, root) ==
    IF root.znode = NULL THEN ImageLeaves(ImageAt(root))
    ELSE UNION {LET z == zn[x]
                IN  IF z.level = 0 THEN {BrOf(z.zbranch[i]) : i \in 1..Len(z.zbranch)}
                    ELSE UNION {IF z.zbranch[i].znode = NULL
                                THEN ImageLeaves(ImageAt(z.zbranch[i])) ELSE {}
                                : i \in 1..Len(z.zbranch)}
                : x \in Reach(zn, root.znode)}

(* the node a leaf branch refers to is on the media, as fallible_read_node *)
(* decides it while the entry of sqnum is replayed                         *)
OnMedia(b, sqnum) ==
    LET node == FlashNode(b.lnum, b.offs)
    IN  /\ node # NoNode /\ key_type(node.key) = key_type(b.key) /\ node.len = b.len
        /\ node.key = b.key /\ node.sqnum <= sqnum

(* the branches the entry (key, nm) of sqnum is to hit: the branches of    *)
(* that key whose node is on the media and has the name, or else the       *)
(* dangling branches of that key                                           *)
RunTargets(leaves, key, nm, sqnum) ==
    LET run == {b \in leaves : b.key = key}
        match == {b \in run : OnMedia(b, sqnum) /\ FlashNode(b.lnum, b.offs).name = nm}
    IN  IF match # {} THEN match ELSE {b \in run : ~OnMedia(b, sqnum)}

(* C12: during replay an addition or deletion by name on a hashed key      *)
(* whose branches may refer to nodes that are no longer on the media       *)
(* completes without error and acts on a branch whose node has the name    *)
(* if there is one in the run of equal keys, otherwise on a dangling       *)
(* branch of the run, and finds nothing only when there is neither.        *)
C12_FallibleTarget ==
    [][last'.op \in {"replay_add_nm", "replay_remove_nm"} =>
          LET before == TreeLeaves(znodes, zroot)
              after == TreeLeaves(znodes', zroot')
              targets == RunTargets(before, last'.a[1], last'.a[2], last'.a[4])
              new == IF last'.op = "replay_add_nm"
                     THEN {Br(last'.a[1], last'.a[3][1], last'.a[3][2], last'.a[3][3])}
                     ELSE {}
          IN  /\ ~oops' /\ last'.ret = 0
              /\ IF targets = {} THEN after = before \cup new
                 ELSE \E t \in targets : after = (before \ {t}) \cup new]_vars

----------------------------------------------------------------------------
(* Replay of a journal in which one node may repeat a sequence number *)

(* <<k, q>>: the node of write k carries the sqnum q on the media.  The    *)
(* sqnum is that of another directory entry, of another node, of the      *)
(* reference node of a bud, or (k = 0) no node is changed.                 *)
DupChoices ==
    {<<0, 0>>, <<2, JournalSqnum + 1>>, <<3, JournalSqnum + 2>>, <<6, JournalSqnum + 5>>,
     <<5, JournalSqnum + 4>>, <<4, RefSqnum(6)>>, <<5, RefSqnum(7)>>}

DupNodes(head, lnum, dup) ==
    LET nodes == BudNodes(head, lnum)
    IN  [i \in 1..Len(nodes) |->
            IF nodes[i].sqnum = JournalSqnum + dup[1] THEN [nodes[i] EXCEPT !.sqnum = dup[2]]
            ELSE nodes[i]]

InitDup ==
    /\ znodes = <<>>
    /\ \E r \in Roots :
          /\ zroot = Zbranch(<<0, 0, 0>>, r.lnum, r.offs, r.len, NULL)
          /\ map = MapOfImage(r)
    /\ old_idx = {}
    /\ oops = FALSE
    /\ NoAccount
    /\ last = [op |-> "mount", a |-> <<>>, ret |-> 0]
    /\ ops = 0
    /\ tnc_mutex = 0
    /\ thr = NoCallers
    /\ \E head \in [1..MaxWrites -> BudLebs], order \in {<<6, 7>>, <<7, 6>>},
          dup \in DupChoices :
          replay = [NoReplay EXCEPT
                       !.phase = "buds",
                       !.buds = <<Bud(order[1]), Bud(order[2])>>,
                       !.scan = [l \in BudLebs |-> DupNodes(head, l, dup)]]

SpecDup == InitDup /\ [][NextReplay]_vars

(* the sqnums of the entries replay_buds offers to the replay tree for the *)
(* bud b, in the order it offers them                                      *)
Offered(rp, b) ==
    [i \in 1..Len(rp.scan[b.lnum]) |-> rp.scan[b.lnum][i].sqnum] \o <<b.sqnum>>

HasDup(rp, b) ==
    LET o == Offered(rp, b)
    IN  \E i \in 1..Len(o) :
           \/ \E j \in 1..(i - 1) : o[j] = o[i]
           \/ \E j \in 1..Len(rp.tree) : rp.tree[j].sqnum = o[i]

(* C13: when an entry offered to the replay tree carries the sqnum of an   *)
(* entry the tree holds, be they two nodes, two directory entries or a     *)
(* reference entry and a node, the insertion fails with -EINVAL, the tree  *)
(* keeps one entry of that sqnum, the first, and the replay of the journal *)
(* returns -EINVAL with no entry applied to the TNC.                       *)
C13_DuplicateSqnum ==
    [][(replay.phase = "buds" /\ replay' # replay
          /\ HasDup(replay, Head(replay.buds))) =>
          LET r == replay_buds_step(replay, Head(replay.buds))
              t == r.rp.tree
          IN  /\ r.err = -EINVAL
              /\ \A i, j \in 1..Len(t) : t[i].sqnum = t[j].sqnum => i = j
              /\ \A i \in 1..Len(replay.tree) : \E j \in 1..Len(t) : t[j] = replay.tree[i]
              /\ \A j \in 1..Len(t) :
                    LET nodes == replay.scan[Head(replay.buds).lnum]
                        same == {i \in 1..Len(nodes) : nodes[i].sqnum = t[j].sqnum}
                    IN  \/ \E i \in 1..Len(replay.tree) : replay.tree[i] = t[j]
                        \/ /\ same # {}
                           /\ t[j].offs = nodes[CHOOSE i \in same : \A k \in same : i <= k].offs
                           /\ t[j].flags # REPLAY_REF
              /\ replay'.phase = "done" /\ replay'.err = -EINVAL
              /\ replay'.applied = <<>> /\ replay'.tree = <<>>
              /\ last'.ret = -EINVAL
              /\ UNCHANGED <<znodes, zroot, old_idx>>]_vars

C13_Witness ==
    /\ replay.phase = "done" /\ replay.err = -EINVAL /\ last.op = "replay_bud"
    /\ replay.applied = <<>>
    /\ \E i \in 1..Len(replay.scan[7]) : replay.scan[7][i].sqnum = RefSqnum(7)
    /\ replay.scan[6] # <<>>

----------------------------------------------------------------------------
(* Replay in which an allocation of the TNC may fail *)

(* the allocations of one operation that may be the one to fail *)
MaxFail == 2

(* one pass of the loop of apply_replay_tree in which the f-th allocation  *)
(* of the TNC operation fails                                              *)
ApplyEntryNoMem ==
    /\ replay.phase = "apply" /\ replay.next <= Len(replay.tree) /\ ~oops
    /\ \E f \in 1..MaxFail :
       LET e == replay.tree[replay.next] IN
       \E r \in {apply_replay_entry([St EXCEPT !.replaying = TRUE, !.failat = f],
                                    replay, e)} :
       LET r1 == [r.rp EXCEPT !.applied = Append(@, e.sqnum), !.next = @ + 1] IN
           /\ znodes' = r.st.zn
           /\ zroot' = r.st.zroot
           /\ old_idx' = r.st.old_idx
           /\ oops' = r.st.oops
           /\ Accounted(r.st)
           /\ replay' = IF r.err # 0 THEN ReplayOut(r1, r.err) ELSE r1
           /\ last' = [op |-> "replay", a |-> <<e.sqnum>>, ret |-> r.err]
    /\ UNCHANGED <<map, ops, tnc_mutex, thr>>

NextNoMem == ReplayBud \/ ApplyEntry \/ ApplyEntryNoMem \/ ReplayDone

SpecNoMem == InitReplay /\ [][NextNoMem]_vars

(* the end of the nodes scanned in a bud *)
BudEnd(nodes) ==
    IF nodes = <<>> THEN BudStart
    ELSE nodes[Len(nodes)].offs + ALIGN(nodes[Len(nodes)].len, 8)

(* the entries applied before the one that failed *)
AppliedOk ==
    {replay.applied[i] : i \in 1..(Len(replay.applied) - 1)}

----------------------------------------------------------------------------
(* Concurrent callers of the TNC and c->tnc_mutex *)

(* the operations the callers perform, each on a node of the media *)
ThreadCalls ==
    {[op |-> "lookup", m |-> m] : m \in {N_D10, N_D20, N_E1}}
    \cup {[op |-> "lookup_nm", m |-> m] : m \in {N_E1, N_E2}}
    \cup {[op |-> "next_ent", m |-> m] : m \in {N_E1}}
    \cup {[op |-> "add", m |-> m] : m \in {N_D11, M_D10}}
    \cup {[op |-> "add_nm", m |-> m] : m \in {N_E11}}
    \cup {[op |-> "replace", m |-> m] : m \in {M_D10}}
    \cup {[op |-> "remove", m |-> m] : m \in {N_D10}}
    \cup {[op |-> "remove_nm", m |-> m] : m \in {N_E2}}
    \cup {[op |-> "remove_range", m |-> m] : m \in {N_D11}}

(* `zt = &znode->zbranch[n]`: the branch in the znode *)
PointerTo(st, zn, n) ==
    [copy |-> FALSE, zn |-> zn, n |-> n, zbr |-> NoZbr.zbr, freed |-> FALSE]

(* `zbr = znode->zbranch[n]`: the caller's own copy of the branch, the    *)
(* pointer zbr.leaf to the cached payload included; freed tells that the   *)
(* payload has been handed to kfree since                                  *)
PrivateCopy(st, zn, n) ==
    [copy |-> TRUE, zn |-> NULL, n |-> 0, zbr |-> st.zn[zn].zbranch[n + 1],
     freed |-> FALSE]

(* what the part of an operation between mutex_lock and mutex_unlock       *)
(* leaves: the TNC, the error, the reference map, where the caller goes    *)
(* after the unlock and the branch it takes there                          *)
Section(st, err, m, next, zbr) ==
    [st |-> st, err |-> err, map |-> m, next |-> next, zbr |-> zbr]

(* ubifs_tnc_lookup between lock and unlock: a hashed key is read through  *)
(* the branch in the znode, any other key is read after the unlock         *)
LockedLookup(st, key, m) ==
    IF is_hash_key(key)
    THEN Let(ubifs_tnc_lookup(st, key), LAMBDA r: Section(r.st, r.err, m, "idle", NoZbr))
    ELSE Let(lookup_level0(st, key), LAMBDA l:
             IF l.ret = 0 THEN Section(l.st, -ENOENT, m, "idle", NoZbr)
             ELSE IF l.ret < 0 THEN Section(l.st, l.ret, m, "idle", NoZbr)
             ELSE Section(l.st, 0, m, "read", PrivateCopy(l.st, l.zn, l.n)))

(* ubifs_tnc_lookup_nm: its call of ubifs_tnc_lookup, a hashed key *)
LockedLookupNm1(st, key, nm, m) ==
    Let(ubifs_tnc_lookup(st, key), LAMBDA r:
        Section(r.st, r.err, m,
                IF r.err = 0 /\ r.node.name # nm THEN "again" ELSE "idle", NoZbr))

(* do_lookup_nm between lock and unlock *)
LockedLookupNm2(st, key, nm, m) ==
    Let(lookup_level0(st, key), LAMBDA l:
    Let(resolve_collision(l.st, key, l.zn, l.n, nm), LAMBDA rc:
        IF l.ret = 0 THEN Section(l.st, -ENOENT, m, "idle", NoZbr)
        ELSE IF l.ret < 0 THEN Section(l.st, l.ret, m, "idle", NoZbr)
        ELSE IF rc.ret < 0 THEN Section(rc.st, rc.ret, m, "idle", NoZbr)
        ELSE IF rc.ret = 0 THEN Section(rc.st, -ENOENT, m, "idle", NoZbr)
        ELSE Section(rc.st, 0, m, "read", PrivateCopy(rc.st, rc.zn, rc.n))))

(* the part of the operation of caller c between lock and unlock *)
Locked(st, c, m) ==
    LET n == c.m IN
    CASE c.op = "lookup" -> LockedLookup(st, n.key, m)
      [] c.op = "lookup_nm" ->
            IF c.stage = 1 THEN LockedLookupNm1(st, n.key, n.name, m)
            ELSE LockedLookupNm2(st, n.key, n.name, m)
      [] c.op = "next_ent" ->
            Let(ubifs_tnc_next_ent(st, n.key, n.name), LAMBDA r:
                Section(r.st, r.err, m, "idle", NoZbr))
      [] c.op = "add" ->
            Let(ubifs_tnc_add(st, n.key, n.lnum, n.offs, n.len), LAMBDA r:
                Section(r.st, r.err, [m EXCEPT ![Ident(n)] = PosOf(n)], "idle", NoZbr))
      [] c.op = "add_nm" ->
            Let(ubifs_tnc_add_nm(st, n.key, n.lnum, n.offs, n.len, n.name), LAMBDA r:
                Section(r.st, r.err, [m EXCEPT ![Ident(n)] = PosOf(n)], "idle", NoZbr))
      [] c.op = "replace" ->
            Let(ubifs_tnc_replace(st, n.key, N_D10.lnum, N_D10.offs, n.lnum, n.offs, n.len),
                LAMBDA r:
                Section(r.st, r.err,
                        IF m[Ident(n)] = PosOf(N_D10) THEN [m EXCEPT ![Ident(n)] = PosOf(n)]
                        ELSE m, "idle", NoZbr))
      [] c.op = "remove" ->
            Let(ubifs_tnc_remove(st, n.key), LAMBDA r:
                Section(r.st, r.err, [m EXCEPT ![Ident(n)] = NotFound], "idle", NoZbr))
      [] c.op = "remove_nm" ->
            Let(ubifs_tnc_remove_nm(st, n.key, n.name), LAMBDA r:
                Section(r.st, r.err, [m EXCEPT ![Ident(n)] = NotFound], "idle", NoZbr))
      [] OTHER ->
            Let(ubifs_tnc_remove_range(st, n.key, highest_ino_key(key_ino(n.key))), LAMBDA r:
                Section(r.st, r.err,
                        [id \in Idents |->
                            IF id \in InRange(n.key, highest_ino_key(key_ino(n.key)))
                            THEN NotFound ELSE m[id]], "idle", NoZbr))

(* a caller enters an operation: mutex_lock returns once the mutex is free *)
TCall ==
    \E t \in Threads, c \in ThreadCalls :
        /\ Ready /\ thr[t].pc = "idle"
        /\ tnc_mutex = 0
        /\ tnc_mutex' = t
        /\ thr' = [thr EXCEPT ![t] = [Idle EXCEPT !.pc = "locked", !.op = c.op, !.m = c.m,
                                                 !.stage = 1]]
        /\ ops' = ops + 1
        /\ UNCHANGED <<znodes, zroot, old_idx, oops, dirt, dirty_zn_cnt, clean_zn_cnt, map, last, replay>>

(* ubifs_tnc_lookup_nm goes on to do_lookup_nm, which takes the mutex *)
TAgain ==
    \E t \in Threads :
        /\ ~oops /\ thr[t].pc = "again"
        /\ tnc_mutex = 0
        /\ tnc_mutex' = t
        /\ thr' = [thr EXCEPT ![t].pc = "locked", ![t].stage = 2]
        /\ UNCHANGED <<znodes, zroot, old_idx, oops, dirt, dirty_zn_cnt, clean_zn_cnt, map, last, ops, replay>>

(* the caller c is past the unlock with a copy of a branch that points to *)
(* a cached payload                                                        *)
HoldsPayload(c) == c.pc = "read" /\ c.zbr.copy /\ c.zbr.zbr.leaf # NoLeaf

(* the branch b was copied from is in the tree and has its payload: no     *)
(* lnc_free was called on it                                               *)
StillCached(st, b) ==
    \E x \in Reach(st.zn, st.zroot.znode) :
        /\ st.zn[x].level = 0
        /\ \E i \in 1..Len(st.zn[x].zbranch) :
              Let(st.zn[x].zbranch[i], LAMBDA z:
                  z.key = b.key /\ z.lnum = b.lnum /\ z.offs = b.offs /\ z.leaf = b.leaf)

(* the caller walks the tree and changes it; what it passes to kfree is    *)
(* gone for the callers that hold a pointer to it                          *)
TWalk ==
    \E t \in Threads :
        /\ ~oops /\ thr[t].pc = "locked"
        /\ \E r \in {Locked(St, thr[t], map)} :
              /\ znodes' = r.st.zn
              /\ zroot' = r.st.zroot
              /\ old_idx' = r.st.old_idx
              /\ oops' = r.st.oops
              /\ Accounted(r.st)
              /\ map' = r.map
              /\ last' = [op |-> thr[t].op, a |-> <<t, thr[t].m.key>>, ret |-> r.err]
              /\ thr' = [u \in Threads |->
                            IF u = t
                            THEN [thr[t] EXCEPT !.pc = "unlock", !.next = r.next,
                                                !.zbr = r.zbr]
                            ELSE IF HoldsPayload(thr[u]) /\ ~StillCached(r.st, thr[u].zbr.zbr)
                            THEN [thr[u] EXCEPT !.zbr.freed = TRUE]
                            ELSE thr[u]]
        /\ UNCHANGED <<ops, replay, tnc_mutex>>

(* mutex_unlock *)
TUnlock ==
    \E t \in Threads :
        /\ thr[t].pc = "unlock"
        /\ tnc_mutex' = 0
        /\ thr' = [thr EXCEPT ![t] = IF thr[t].next = "idle" THEN Idle
                                     ELSE [thr[t] EXCEPT !.pc = thr[t].next]]
        /\ UNCHANGED <<znodes, zroot, old_idx, oops, dirt, dirty_zn_cnt, clean_zn_cnt, map, last, ops, replay>>

(* what the memcpy of lnc_lookup finds behind a pointer: the payload, or,  *)
(* when the payload was freed, what the allocator left or put there        *)
Payloads(b, freed) == IF freed THEN {b.leaf, NoNode} ELSE {b.leaf}

(* tnc_read_node after the unlock, on the branch the caller took *)
TRead ==
    \E t \in Threads :
        /\ thr[t].pc = "read"
        /\ LET b == IF thr[t].zbr.copy THEN thr[t].zbr.zbr
                    ELSE znodes[thr[t].zbr.zn].zbranch[thr[t].zbr.n + 1]
           IN  \E rd \in IF b.leaf # NoLeaf
                          THEN {[err |-> 0, node |-> node] :
                                   node \in Payloads(b, thr[t].zbr.freed)}
                          ELSE {ubifs_read_node(key_type(b.key), b.len, b.lnum, b.offs)} :
                   last' = [op |-> "read",
                            a |-> <<t, b.key, PosOf(rd.node), thr[t].zbr.freed>>,
                            ret |-> rd.err]
        /\ thr' = [thr EXCEPT ![t] = Idle]
        /\ UNCHANGED <<znodes, zroot, old_idx, oops, dirt, dirty_zn_cnt, clean_zn_cnt, map, ops, replay, tnc_mutex>>

NextThreads == TCall \/ TAgain \/ TWalk \/ TUnlock \/ TRead

SpecThreads == Init /\ [][NextThreads]_vars

(* the callers that are between the first and the last znode access of an  *)
(* operation, or that read through a branch in a znode                     *)
InTnc == {t \in Threads : \/ thr[t].pc \in {"locked", "unlock"}
                          \/ thr[t].pc = "read" /\ ~thr[t].zbr.copy}

----------------------------------------------------------------------------
(* A file written block after block into an empty TNC *)

InitEmpty ==
    /\ znodes = <<>>
    /\ zroot = Zbranch(<<0, 0, 0>>, IdxEmpty.lnum, IdxEmpty.offs, IdxEmpty.len, NULL)
    /\ map = MapOfImage(IdxEmpty)
    /\ old_idx = {}
    /\ oops = FALSE
    /\ NoAccount
    /\ last = [op |-> "mount", a |-> <<>>, ret |-> 0]
    /\ ops = 0
    /\ replay = NoReplay
    /\ tnc_mutex = 0
    /\ thr = NoCallers

(* the keys in the tree *)
TreeKeys == {b.key : b \in TreeLeaves(znodes, zroot)}

(* the next block of the file is written: ubifs_tnc_add of its data key *)
AppendBlock ==
    \E inum \in AppendInos :
        /\ ~oops /\ Cardinality(TreeKeys) < MaxAppend
        /\ \A k \in TreeKeys : key_ino(k) = inum
        /\ \E m \in {AppendNode(inum, Cardinality(TreeKeys))} :
           \E r \in {ubifs_tnc_add(St, m.key, m.lnum, m.offs, m.len)} :
               Return(r.st, "append", <<m.key, PosOf(m)>>, r.err, map)

(* a commit starts between two writes *)
AppendCommit ==
    /\ ~oops
    /\ \A x \in DOMAIN znodes : ~znodes[x].cnext
    /\ \E x \in DOMAIN znodes : znodes[x].dirty
    /\ znodes' = [x \in DOMAIN znodes |->
                     IF znodes[x].dirty THEN [znodes[x] EXCEPT !.cow = TRUE, !.cnext = TRUE]
                     ELSE znodes[x]]
    /\ last' = [op |-> "commit_start", a |-> <<>>, ret |-> 0]
    /\ UNCHANGED <<zroot, old_idx, oops, dirt, dirty_zn_cnt, clean_zn_cnt, map, ops, replay, tnc_mutex, thr>>

(* a block of the file is read between two writes *)
AppendLookup ==
    \E k \in TreeKeys :
        /\ ~oops
        /\ \E r \in {ubifs_tnc_locate(St, k)} :
              /\ znodes' = r.st.zn
              /\ zroot' = r.st.zroot
              /\ old_idx' = r.st.old_idx
              /\ oops' = r.st.oops
              /\ Accounted(r.st)
              /\ last' = [op |-> "lookup", a |-> <<k, Pos(r.lnum, r.offs, r.node.len)>>,
                          ret |-> r.err]
        /\ UNCHANGED <<map, ops, replay, tnc_mutex, thr>>

NextAppend == AppendBlock \/ AppendCommit \/ AppendLookup

SpecAppend == InitEmpty /\ [][NextAppend]_vars

(* the leaf znodes of the tree *)
LeafZnodes == {x \in Tree : znodes[x].level = 0}

(* C17: after the data keys of blocks 0 .. k*F-1 of a file were inserted   *)
(* in increasing order into an empty tree, the tree has k leaf znodes and  *)
(* each holds F branches; for 2 <= k <= F the root is at level 1 and has   *)
(* k branches.                                                             *)
C17_AppendKeepsLeavesFull ==
    \A k \in 1..MaxLeaves :
        (~oops /\ Cardinality(TreeKeys) = k * fanout) =>
            /\ Cardinality(LeafZnodes) = k
            /\ \A x \in LeafZnodes : child_cnt(znodes[x]) = fanout
            /\ (2 <= k /\ k <= fanout) =>
                  /\ znodes[zroot.znode].level = 1
                  /\ child_cnt(znodes[zroot.znode]) = k

C17_Witness ==
    /\ ~oops /\ Cardinality(TreeKeys) = 3 * fanout
    /\ Cardinality(LeafZnodes) = 3
    /\ \E x \in Tree : znodes[x].cnext

(* C18 as stated: while a file is written block after block into an empty *)
(* tree no znode has the ALT flag.                                         *)
C18_NoAlt ==
    \A x \in DOMAIN znodes : ~znodes[x].alt

(* C18: while a file is written block after block into an empty tree,      *)
(* every leaf znode that holds a key has the ALT flag, the first leaf from *)
(* the first insertion and every right sibling a split made from the one   *)
(* key it was made for, both inserted at slot 0; the root a split makes    *)
(* does not have it.                                                       *)
C18_AltOnLeaves ==
    /\ \A x \in LeafZnodes : child_cnt(znodes[x]) > 0 => znodes[x].alt
    /\ \A x \in Tree : (znodes[x].level > 0 /\ znodes[x].parent = NULL) => ~znodes[x].alt

C18_Witness ==
    /\ ~oops /\ Cardinality(LeafZnodes) = 2
    /\ \A x \in LeafZnodes : znodes[x].alt /\ child_cnt(znodes[x]) = fanout
    /\ znodes[zroot.znode].level = 1 /\ ~znodes[zroot.znode].alt

----------------------------------------------------------------------------
(* Scripts of insertions and deletions on an empty TNC *)

(* the operations of a script, and the blocks of the file it works on *)
MaxScript == 6
ScriptBlocks == 0..5

ScriptAdd ==
    \E blk \in ScriptBlocks :
        /\ ~oops /\ ops < MaxScript
        /\ \E m \in {AppendNode(1, blk)} :
           \E r \in {ubifs_tnc_add(St, m.key, m.lnum, m.offs, m.len)} :
               Return(r.st, "add", <<m.key, PosOf(m)>>, r.err, map)

ScriptRemove ==
    \E blk \in ScriptBlocks :
        /\ ~oops /\ ops < MaxScript
        /\ \E r \in {ubifs_tnc_remove(St, AppendNode(1, blk).key)} :
               Return(r.st, "remove", <<AppendNode(1, blk).key>>, r.err, map)

NextScript == ScriptAdd \/ ScriptRemove

SpecScript == InitEmpty /\ [][NextScript]_vars

(* the least h with F^h >= n *)
RECURSIVE CeilLog(_, _)
CeilLog(F, n) == IF n <= 1 THEN 0 ELSE 1 + CeilLog(F, (n + F - 1) \div F)

(* the znodes of the tree other than the root *)
NonRoot == Tree \ {zroot.znode}

----------------------------------------------------------------------------
(* Operations of the TNC in which an allocation may fail *)

(* ubifs_tnc_add in which the f-th allocation fails; the operation is     *)
(* recorded with the allocations left before the failing one, 0 when the  *)
(* failing allocation was made                                             *)
AddNoMem ==
    \E m \in Media, f \in 1..MaxFail :
        /\ Ready
        /\ ~is_hash_key(m.key)
        /\ \E r \in {ubifs_tnc_add([St EXCEPT !.failat = f],
                                  m.key, m.lnum, m.offs, m.len)} :
               Return(r.st, "add", <<m.key, PosOf(m), r.st.failat>>, r.err,
                      IF r.err = 0 THEN [map EXCEPT ![Ident(m)] = PosOf(m)] ELSE map)

(* ubifs_tnc_remove in which the f-th allocation fails *)
RemoveNoMem ==
    \E key \in PlainKeys, f \in 1..MaxFail :
        /\ Ready
        /\ \E r \in {ubifs_tnc_remove([St EXCEPT !.failat = f], key)} :
               Return(r.st, "remove", <<key>>, r.err,
                      IF r.err = 0 THEN [map EXCEPT ![<<key, <<>>>>] = NotFound]
                      ELSE map)

NextCow == Add \/ Remove \/ CommitStart \/ AddNoMem \/ RemoveNoMem

SpecCow == Init /\ [][NextCow]_vars

(* C19: in every state, the one left by an operation that returned an error *)
(* included, no znode reachable from zroot through child pointers has the   *)
(* OBSOLETE flag set                                                        *)
C19_NoObsoleteReachable ==
    ~oops => \A x \in Tree : ~znodes[x].obsolete

----------------------------------------------------------------------------
(* Name comparison when the leaf-node cache has no entry for the branch *)

(* ubifs_tnc_add_nm in which the f-th allocation fails *)
AddNmNoMem ==
    \E m \in HashedMedia, f \in 1..MaxFail :
        /\ Ready
        /\ \E r \in {ubifs_tnc_add_nm([St EXCEPT !.failat = f],
                                     m.key, m.lnum, m.offs, m.len, m.name)} :
               Return(r.st, "add_nm", <<m.key, m.name, PosOf(m)>>, r.err,
                      IF r.err = 0 THEN [map EXCEPT ![Ident(m)] = PosOf(m)] ELSE map)

(* ubifs_tnc_lookup_nm in which the f-th allocation fails *)
LookupNmNoMem ==
    \E m \in HashedMedia, f \in 1..MaxFail :
        /\ Ready
        /\ \E r \in {ubifs_tnc_lookup_nm([St EXCEPT !.failat = f], m.key, m.name)} :
               Return(r.st, "lookup_nm", <<m.key, m.name, PosOf(r.node)>>, r.err, map)

NextLnc == LookupNm \/ AddNm \/ NextEnt \/ AddNmNoMem \/ LookupNmNoMem

SpecLnc == Init /\ [][NextLnc]_vars

(* the operations that compare names and delete nothing *)
NameOps == {"lookup_nm", "add_nm", "next_ent"}

(* C20: the leaf-node cache is only a hint: a name operation whose branch   *)
(* is not cached after the read (an xattr-entry key, or a failed allocation *)
(* in lnc_add) compares against the node read from flash and never uses the *)
(* absent cache entry                                                       *)
C20_LncIsHint ==
    last.op \in NameOps => ~oops

----------------------------------------------------------------------------
(* Failures detected inside an operation *)

InitSilent ==
    /\ znodes = <<>>
    /\ \E r \in {IdxRoot, IdxBadKey} :
          /\ zroot = Zbranch(<<0, 0, 0>>, r.lnum, r.offs, r.len, NULL)
          /\ map = MapOfImage(r)
    /\ old_idx = {}
    /\ oops = FALSE
    /\ NoAccount
    /\ last = [op |-> "mount", a |-> <<>>, ret |-> 0]
    /\ ops = 0
    /\ replay = NoReplay
    /\ tnc_mutex = 0
    /\ thr = NoCallers

NextSilent == Lookup \/ Add \/ AddNoMem

SpecSilent == InitSilent /\ [][NextSilent]_vars

(* a lookup that returns 0 returns a node whose key is the key looked up *)
LookupKeyChecked ==
    (last.op = "lookup" /\ last.ret = 0) =>
        FlashNode(last.a[2][1], last.a[2][2]).key = last.a[1]

(* an add in which an allocation failed returns an error *)
AddFailureReported ==
    (last.op = "add" /\ Len(last.a) = 3 /\ last.a[3] = 0) => last.ret # 0

(* C21: no failure detected inside an operation is turned into success: a   *)
(* leaf read that finds another key in the node than the key of the branch  *)
(* makes the lookup return an error, and a failure to record the old index  *)
(* entry before the split of an ALT znode makes the add return that error   *)
C21_NoSilentSuccess == LookupKeyChecked /\ AddFailureReported

----------------------------------------------------------------------------
(* Looking up an index node by its position.  Results are [st, err, zn],   *)
(* zn = NULL when there is no such znode.                                  *)

(* go down the rightmost branches to the level *)
RECURSIVE rightmost_at(_, _, _)
rightmost_at(st, znode, level) ==
    IF st.zn[znode].level = level THEN [st |-> st, err |-> 0, zn |-> znode]
    ELSE Let(get_znode(st, znode, child_cnt(st.zn[znode]) - 1), LAMBDA g:
             IF g.err # 0 THEN g ELSE rightmost_at(g.st, g.zn, level))

(* go down the leftmost branches to the level *)
RECURSIVE leftmost_at(_, _, _)
leftmost_at(st, znode, level) ==
    IF st.zn[znode].level = level THEN [st |-> st, err |-> 0, zn |-> znode]
    ELSE Let(get_znode(st, znode, 0), LAMBDA g:
             IF g.err # 0 THEN g ELSE leftmost_at(g.st, g.zn, level))

RECURSIVE left_znode_up(_, _, _)
left_znode_up(st, znode, level) ==
    LET n == st.zn[znode].iip - 1
        zp == st.zn[znode].parent
    IN  IF zp = NULL THEN [st |-> st, err |-> 0, zn |-> NULL]
        ELSE IF n >= 0
        THEN Let(get_znode(st, zp, n), LAMBDA g:
                 IF g.err # 0 THEN g ELSE rightmost_at(g.st, g.zn, level))
        ELSE left_znode_up(st, zp, level)

left_znode(st, znode) == left_znode_up(st, znode, st.zn[znode].level)

RECURSIVE right_znode_up(_, _, _)
right_znode_up(st, znode, level) ==
    LET n == st.zn[znode].iip + 1
        zp == st.zn[znode].parent
    IN  IF zp = NULL THEN [st |-> st, err |-> 0, zn |-> NULL]
        ELSE IF n < child_cnt(st.zn[zp])
        THEN Let(get_znode(st, zp, n), LAMBDA g:
                 IF g.err # 0 THEN g ELSE leftmost_at(g.st, g.zn, level))
        ELSE right_znode_up(st, zp, level)

right_znode(st, znode) == right_znode_up(st, znode, st.zn[znode].level)

(* is slot n of znode the branch of the position? *)
AtPosition(st, znode, n, lnum, offs) ==
    /\ st.zn[znode].zbranch[n + 1].lnum = lnum
    /\ st.zn[znode].zbranch[n + 1].offs = offs

(* the descent of lookup_znode to the level above: [st, err, zn, n] *)
RECURSIVE lookup_znode_descend(_, _, _, _)
lookup_znode_descend(st, znode, key, level) ==
    LET n0 == ubifs_search_zbranch(st.zn[znode], key).n IN
    Let(IF n0 < 0 THEN left_znode(st, znode)
        ELSE [st |-> st, err |-> 0, zn |-> znode], LAMBDA l:
        IF l.err # 0 \/ l.zn = NULL THEN [st |-> l.st, err |-> l.err, zn |-> NULL, n |-> 0]
        ELSE LET n == ubifs_search_zbranch(l.st.zn[l.zn], key).n IN
             IF l.st.zn[l.zn].level = level + 1
             THEN [st |-> l.st, err |-> 0, zn |-> l.zn, n |-> n]
             ELSE Let(get_znode(l.st, l.zn, n), LAMBDA g:
                      IF g.err # 0 THEN [st |-> g.st, err |-> g.err, zn |-> NULL, n |-> 0]
                      ELSE lookup_znode_descend(g.st, g.zn, key, level)))

(* the look-left loop: [st, err, zn, done], done when the function returns *)
RECURSIVE lookup_znode_left(_, _, _, _, _, _)
lookup_znode_left(st, znode, n, key, lnum, offs) ==
    Let(IF n # 0 THEN [st |-> st, err |-> 0, zn |-> znode]
        ELSE left_znode(st, znode), LAMBDA l:
        IF l.err # 0 THEN [st |-> l.st, err |-> l.err, zn |-> NULL, done |-> TRUE]
        ELSE IF l.zn = NULL THEN [st |-> l.st, err |-> 0, zn |-> NULL, done |-> FALSE]
        ELSE LET n1 == IF n # 0 THEN n - 1 ELSE child_cnt(l.st.zn[l.zn]) - 1 IN
             IF AtPosition(l.st, l.zn, n1, lnum, offs)
             THEN Let(get_znode(l.st, l.zn, n1), LAMBDA g:
                      [st |-> g.st, err |-> g.err, zn |-> g.zn, done |-> TRUE])
             ELSE IF keys_cmp(l.st.zn[l.zn].zbranch[n1 + 1].key, key) < 0
             THEN [st |-> l.st, err |-> 0, zn |-> NULL, done |-> FALSE]
             ELSE lookup_znode_left(l.st, l.zn, n1, key, lnum, offs))

(* the look-right loop: [st, err, zn] *)
RECURSIVE lookup_znode_right(_, _, _, _, _, _)
lookup_znode_right(st, znode, n, key, lnum, offs) ==
    Let(IF n + 1 >= child_cnt(st.zn[znode]) THEN right_znode(st, znode)
        ELSE [st |-> st, err |-> 0, zn |-> znode], LAMBDA r:
        IF r.err # 0 \/ r.zn = NULL THEN [st |-> r.st, err |-> r.err, zn |-> NULL]
        ELSE LET n1 == IF n + 1 >= child_cnt(st.zn[znode]) THEN 0 ELSE n + 1 IN
             IF AtPosition(r.st, r.zn, n1, lnum, offs)
             THEN get_znode(r.st, r.zn, n1)
             ELSE IF keys_cmp(r.st.zn[r.zn].zbranch[n1 + 1].key, key) > 0
             THEN [st |-> r.st, err |-> 0, zn |-> NULL]
             ELSE lookup_znode_right(r.st, r.zn, n1, key, lnum, offs))

lookup_znode(st, key, level, lnum, offs) ==
    Let(IF st.zroot.znode = NULL THEN load_znode(st, NULL, 0)
        ELSE [st |-> st, err |-> 0, zn |-> st.zroot.znode], LAMBDA r:
        IF level < 0 THEN [st |-> st, err |-> -EINVAL, zn |-> NULL]
        ELSE IF r.err # 0 THEN r
        ELSE IF r.st.zroot.lnum = lnum /\ r.st.zroot.offs = offs THEN r
        ELSE IF level >= r.st.zn[r.zn].level THEN [st |-> r.st, err |-> 0, zn |-> NULL]
        ELSE
    Let(lookup_znode_descend(r.st, r.zn, key, level), LAMBDA d:
        IF d.err # 0 \/ d.zn = NULL THEN [st |-> d.st, err |-> d.err, zn |-> NULL]
        ELSE IF AtPosition(d.st, d.zn, d.n, lnum, offs) THEN get_znode(d.st, d.zn, d.n)
        ELSE IF ~is_hash_key(key) THEN [st |-> d.st, err |-> 0, zn |-> NULL]
        ELSE
    Let(lookup_znode_left(d.st, d.zn, d.n, key, lnum, offs), LAMBDA l:
        IF l.done THEN [st |-> l.st, err |-> l.err, zn |-> l.zn]
        ELSE lookup_znode_right(l.st, d.zn, d.n, key, lnum, offs))))

(* 0: not referred to, 1: referred to and dirty, 2: referred to and clean *)
is_idx_node_in_tnc(st, key, level, lnum, offs) ==
    Let(lookup_znode(st, key, level, lnum, offs), LAMBDA r:
        [st |-> r.st,
         err |-> IF r.err # 0 THEN r.err
                 ELSE IF r.zn = NULL THEN 0
                 ELSE IF ubifs_zn_dirty(r.st.zn[r.zn]) THEN 1 ELSE 2])

(* what ubifs_tnc_has_node returns for each outcome of is_idx_node_in_tnc *)
has_node_keeps_outcome(err) == err

has_node_outcome(err) ==
    IF err < 0 THEN err
    ELSE IF err = 1 THEN 0
    ELSE IF err = 2 THEN 1
    ELSE err

(* ubifs_tnc_has_node with is_idx set *)
ubifs_tnc_has_node(st, key, level, lnum, offs) ==
    Let(is_idx_node_in_tnc(st, key, level, lnum, offs), LAMBDA r:
        [st |-> r.st, err |-> has_node_outcome(r.err)])

(* the index nodes garbage collection may ask about: those of the three    *)
(* indexes a mount may find                                                *)
Scanned ==
    {IdxLeafA, IdxLeafB, IdxRoot, IdxSingle, IdxFull1, IdxFull2, IdxFull3, IdxFull}

(* garbage collection asks whether the index node it found is in use *)
HasNode ==
    \E idx \in Scanned :
        /\ Ready
        /\ \E r \in {ubifs_tnc_has_node(St, idx.branches[1].key, idx.level,
                                       idx.lnum, idx.offs)} :
               Return(r.st, "has_node", <<idx.lnum, idx.offs>>, r.err, map)

NextHas == Add \/ Remove \/ HasNode

SpecHas == Init /\ [][NextHas]_vars

(* the branches of the tree that refer to the position *)
RefersTo(lnum, offs) ==
    (IF zroot.lnum = lnum /\ zroot.offs = offs THEN {zroot} ELSE {})
        \cup {b \in UNION {{znodes[x].zbranch[i] : i \in 1..child_cnt(znodes[x])} :
                           x \in {y \in Tree : znodes[y].level > 0}} :
                 b.lnum = lnum /\ b.offs = offs}

IsAbsent(lnum, offs) == RefersTo(lnum, offs) = {}
IsDirty(lnum, offs) ==
    \E b \in RefersTo(lnum, offs) : b.znode # NULL /\ znodes[b.znode].dirty
IsClean(lnum, offs) == ~IsAbsent(lnum, offs) /\ ~IsDirty(lnum, offs)

AskedHasNode == last.op = "has_node" /\ last.ret >= 0 /\ ~oops

(* C22 as stated: has_node for an index node reports three distinguishable *)
(* outcomes, absent, dirty and clean                                       *)
C22_ThreeOutcomes ==
    AskedHasNode =>
        /\ last.ret = 0 <=> IsAbsent(last.a[1], last.a[2])
        /\ last.ret = 1 <=> IsClean(last.a[1], last.a[2])

(* C22: has_node for an index node reports two outcomes: 1 when a branch   *)
(* refers to (lnum, offs) and its znode is clean, 0 when no branch refers  *)
(* to it or the znode is dirty                                             *)
C22_CleanOrNot ==
    AskedHasNode =>
        /\ last.ret \in {0, 1}
        /\ last.ret = 1 <=> IsClean(last.a[1], last.a[2])

C22_Witness ==
    /\ AskedHasNode
    /\ last.ret = 0
    /\ IsDirty(last.a[1], last.a[2])

----------------------------------------------------------------------------
(* Replay of a journal that holds an extended attribute entry *)

(* the journal in which write 4 is the extended attribute entry <<7>> of   *)
(* inode 1 when xattr is set                                               *)
XattrNodes(head, lnum, xattr) ==
    LET nodes == BudNodes(head, lnum)
    IN  [i \in 1..Len(nodes) |->
            IF xattr /\ nodes[i].sqnum = JournalSqnum + 4
            THEN Written(Xent(lnum, nodes[i].offs, 1, 3, <<7>>, 3), 4)
            ELSE nodes[i]]

InitXattr ==
    /\ znodes = <<>>
    /\ \E r \in {IdxRoot, IdxSingle} :
          /\ zroot = Zbranch(<<0, 0, 0>>, r.lnum, r.offs, r.len, NULL)
          /\ map = MapOfImage(r)
    /\ old_idx = {}
    /\ oops = FALSE
    /\ NoAccount
    /\ last = [op |-> "mount", a |-> <<>>, ret |-> 0]
    /\ ops = 0
    /\ tnc_mutex = 0
    /\ thr = NoCallers
    /\ \E head \in [1..MaxWrites -> BudLebs], xattr \in BOOLEAN :
          replay = [NoReplay EXCEPT
                       !.phase = "buds",
                       !.buds = <<Bud(6), Bud(7)>>,
                       !.scan = [l \in BudLebs |-> XattrNodes(head, l, xattr)]]

SpecXattr == InitXattr /\ [][NextNoMem]_vars

(* C23: on every return of ubifs_replay_journal, successful or not, the    *)
(* replay tree is empty, the list of buds is empty and every name buffer   *)
(* allocated for a directory entry or extended attribute entry of the      *)
(* replay has been freed                                                   *)
C23_ReplayFreed ==
    replay.phase = "done" =>
        /\ replay.tree = <<>>
        /\ replay.buds = <<>>
        /\ replay.nbufs = {}

----------------------------------------------------------------------------
(* The old index *)

(* the index node image is still accounted for in st: lookup_znode finds a *)
(* znode for it or its position is in the old index                        *)
Kept(st, idx) ==
    \/ <<idx.lnum, idx.offs>> \in st.old_idx
    \/ Let(lookup_znode(st, idx.branches[1].key, idx.level, idx.lnum, idx.offs), LAMBDA r:
           r.err = 0 /\ r.zn # NULL)

(* C24: old-index completeness: an index node image of the tree that       *)
(* lookup_znode finds or the old index holds is, after any insert, delete, *)
(* range delete or copy-on-write dirtying, still found by lookup_znode or  *)
(* held by the old index                                                   *)
C24_OldIndexComplete ==
    [][~oops' =>
          \E s \in {St}, t \in {[St EXCEPT !.zn = znodes', !.zroot = zroot',
                                           !.old_idx = old_idx']} :
              \A idx \in Scanned : Kept(s, idx) => Kept(t, idx)]_vars

----------------------------------------------------------------------------
(* The left-edge probe of lookup_level0 and lookup_level0_dirty.           *)

(* the leaf branches below branches i.. of the index image idx, in order *)
RECURSIVE ImageRow(_, _)
ImageRow(idx, i) ==
    IF i > Len(idx.branches) THEN <<>>
    ELSE (IF idx.level = 0 THEN <<[zn |-> NULL, n |-> 0, br |-> idx.branches[i]]>>
          ELSE ImageRow(ImageAt(idx.branches[i]), 1)) \o ImageRow(idx, i + 1)

(* the leaf branches below slots i-1.. of znode x, in order, each with the *)
(* leaf znode and slot that hold it when the leaf is loaded                *)
RECURSIVE ZnodeRow(_, _, _)
ZnodeRow(zn, x, i) ==
    IF i > Len(zn[x].zbranch) THEN <<>>
    ELSE (IF zn[x].level = 0
          THEN <<[zn |-> x, n |-> i - 1, br |-> BrOf(zn[x].zbranch[i])]>>
          ELSE IF zn[x].zbranch[i].znode = NULL
          THEN ImageRow(ImageAt(zn[x].zbranch[i]), 1)
          ELSE ZnodeRow(zn, zn[x].zbranch[i].znode, 1)) \o ZnodeRow(zn, x, i + 1)

HashedKeys == {m.key : m \in HashedMedia}

ProbeReady == ~oops /\ ops < MaxScript

Probe ==
    \E key \in HashedKeys :
        /\ ProbeReady
        /\ \E r \in {lookup_level0(St, key)} :
               Return(r.st, "lookup_level0", <<key, r.zn, r.n>>, r.ret, map)

ProbeDirty ==
    \E key \in HashedKeys :
        /\ ProbeReady
        /\ \E r \in {lookup_level0_dirty(St, key)} :
               Return(r.st, "lookup_level0_dirty", <<key, r.zn, r.n>>, r.ret, map)

ProbeAddNm ==
    \E m \in HashedMedia :
        /\ ProbeReady
        /\ \E r \in {ubifs_tnc_add_nm(St, m.key, m.lnum, m.offs, m.len, m.name)} :
               Return(r.st, "add_nm", <<m.key, m.name, PosOf(m)>>, r.err,
                      [map EXCEPT ![Ident(m)] = PosOf(m)])

ProbeRemoveNm ==
    \E m \in HashedMedia :
        /\ ProbeReady
        /\ \E r \in {ubifs_tnc_remove_nm(St, m.key, m.name)} :
               Return(r.st, "remove_nm", <<m.key, m.name>>, r.err,
                      [map EXCEPT ![Ident(m)] = NotFound])

InitProbe ==
    /\ znodes = <<>>
    /\ \E r \in {IdxRoot, IdxFull, RunRoot({})} :
          /\ zroot = Zbranch(<<0, 0, 0>>, r.lnum, r.offs, r.len, NULL)
          /\ map = MapOfImage(r)
    /\ old_idx = {}
    /\ oops = FALSE
    /\ NoAccount
    /\ last = [op |-> "mount", a |-> <<>>, ret |-> 0]
    /\ ops = 0
    /\ replay = NoReplay
    /\ tnc_mutex = 0
    /\ thr = NoCallers

NextProbe == ProbeAddNm \/ ProbeRemoveNm \/ Probe \/ ProbeDirty

SpecProbe == InitProbe /\ [][NextProbe]_vars

Probed == last.op \in {"lookup_level0", "lookup_level0_dirty"} /\ last.ret >= 0 /\ ~oops

(* the in-order predecessor of slot 0 of leaf x, <<>> when there is none *)
PredOf(x) ==
    Let(ZnodeRow(znodes, zroot.znode, 1), LAMBDA row:
        IF \E i \in 2..Len(row) : row[i].zn = x /\ row[i].n = 0
        THEN <<row[(CHOOSE i \in 2..Len(row) : row[i].zn = x /\ row[i].n = 0) - 1]>>
        ELSE <<>>)

(* the descent ended at slot -1 of a leaf without a match *)
AtLeftEdge == Probed /\ Let(walk_level0(St, zroot.znode, last.a[1], FALSE), LAMBDA w:
                            w.ret = 0 /\ w.n = -1)

ProbeStep ==
    Probed =>
        Let(walk_level0(St, zroot.znode, last.a[1], FALSE), LAMBDA w:
            IF w.ret = 1 \/ w.n # -1
            THEN last.ret = w.ret /\ last.a[2] = w.zn /\ last.a[3] = w.n
            ELSE Let(PredOf(w.zn), LAMBDA p:
                     IF p # <<>> /\ p[1].br.key = last.a[1]
                     THEN last.ret = 1 /\ last.a[2] = p[1].zn /\ last.a[3] = p[1].n
                     ELSE last.ret = 0 /\ last.a[2] = w.zn /\ last.a[3] = -1))

PresentFound ==
    Probed /\ last.a[1] \in TreeKeys =>
        /\ last.ret = 1
        /\ znodes[last.a[2]].zbranch[last.a[3] + 1].key = last.a[1]

(* C25: for a hashed key whose descent ends at slot -1 of a leaf, the      *)
(* search steps to the in-order predecessor branch and returns an exact    *)
(* match there iff its key is the key looked up, otherwise not-found at    *)
(* slot -1 of the leaf reached; a hashed key present in the tree is found  *)
C25_LeftEdgeProbe == ProbeStep /\ PresentFound

C25_Witness ==
    /\ AtLeftEdge /\ last.ret = 1
    /\ last.a[2] # walk_level0(St, zroot.znode, last.a[1], FALSE).zn

----------------------------------------------------------------------------
(* Dirty paths: lookup_level0_dirty and dirty_cow_bottom_up.               *)

BranchRow(z) == [i \in 1..Len(z.zbranch) |-> BrOf(z.zbranch[i])]

(* the branch rows of the leaf index nodes below the image idx *)
RECURSIVE ImageLeafRows(_)
ImageLeafRows(idx) ==
    IF idx.level = 0 THEN {idx.branches}
    ELSE UNION {ImageLeafRows(ImageAt(idx.branches[i])) : i \in 1..Len(idx.branches)}

(* the branch rows of the leaves of the tree, unloaded ones included *)
LeafRows(zn, root) ==
    IF root.znode = NULL THEN ImageLeafRows(ImageAt(root))
    ELSE UNION {IF zn[x].level = 0 THEN {BranchRow(zn[x])}
                ELSE UNION {IF zn[x].zbranch[i].znode = NULL
                            THEN ImageLeafRows(ImageAt(zn[x].zbranch[i])) ELSE {}
                            : i \in 1..Len(zn[x].zbranch)}
                : x \in Reach(zn, root.znode)}

(* znode x and its ancestors, by the parent pointers *)
RECURSIVE PathUp(_, _)
PathUp(zn, x) == IF x = NULL THEN {} ELSE {x} \cup PathUp(zn, zn[x].parent)

PathDirty(zn, x) == \A y \in PathUp(zn, x) : zn[y].dirty /\ ~zn[y].cow

MaxDirty == 5

DirtyReady == ~oops /\ ops < MaxDirty

DirtyAddNm ==
    \E m \in HashedMedia :
        /\ DirtyReady
        /\ \E r \in {ubifs_tnc_add_nm(St, m.key, m.lnum, m.offs, m.len, m.name)} :
               Return(r.st, "add_nm", <<m.key, m.name, PosOf(m)>>, r.err,
                      [map EXCEPT ![Ident(m)] = PosOf(m)])

DirtyRemoveNm ==
    \E m \in HashedMedia :
        /\ DirtyReady
        /\ \E r \in {ubifs_tnc_remove_nm(St, m.key, m.name)} :
               Return(r.st, "remove_nm", <<m.key, m.name>>, r.err,
                      [map EXCEPT ![Ident(m)] = NotFound])

(* the left-edge probe for key would step to a predecessor leaf that is   *)
(* being committed                                                         *)
EdgeCow(st, key) ==
    Let(lookup_level0(st, key), LAMBDA r:
        /\ r.ret = 1
        /\ walk_level0(r.st, r.st.zroot.znode, key, FALSE).n = -1
        /\ r.st.zn[r.zn].cow)

DirtyReplaceNm ==
    \E old \in HashedMedia, new \in HashedMedia :
        /\ DirtyReady
        /\ Ident(old) = Ident(new) /\ PosOf(old) # PosOf(new)
        /\ \E r \in {ubifs_tnc_replace(St, new.key, old.lnum, old.offs,
                                      new.lnum, new.offs, new.len)} :
               Return(r.st, "replace",
                      <<new.key, PosOf(old), PosOf(new), EdgeCow(St, new.key)>>, r.err,
                      IF map[Ident(old)] = PosOf(old)
                      THEN [map EXCEPT ![Ident(new)] = PosOf(new)] ELSE map)

(* spec-modelled start of a commit, as CommitStart *)
DirtyCommit ==
    /\ DirtyReady
    /\ \A x \in DOMAIN znodes : ~znodes[x].cnext
    /\ \E x \in DOMAIN znodes : znodes[x].dirty
    /\ Return([St EXCEPT !.zn = [x \in DOMAIN znodes |->
                   IF znodes[x].dirty
                   THEN [znodes[x] EXCEPT !.cow = TRUE, !.cnext = TRUE]
                   ELSE znodes[x]]],
              "commit_start", <<>>, 0, map)

NextDirty == DirtyAddNm \/ DirtyRemoveNm \/ DirtyReplaceNm \/ DirtyCommit

SpecDirty == InitProbe /\ [][NextDirty]_vars

(* the leaves of the tree after the step whose branches no leaf had before *)
ModifiedLeaves ==
    {x \in Reach(znodes', zroot'.znode) :
        znodes'[x].level = 0 /\ BranchRow(znodes'[x]) \notin LeafRows(znodes, zroot)}

ModifiedDirty == [][~oops' => \A x \in ModifiedLeaves : PathDirty(znodes', x)]_vars

DirtyAncestors ==
    ~oops => \A x \in Tree : znodes[x].dirty =>
                 \A y \in PathUp(znodes, x) : znodes[y].dirty

(* C26: a leaf znode a mutating operation modified and all its ancestors   *)
(* up to the root are DIRTY and none of them has COW set; every ancestor   *)
(* of a DIRTY znode of the tree is DIRTY                                   *)
C26_DirtyPath == ModifiedDirty /\ []DirtyAncestors

(* the position of a name was replaced in the predecessor leaf the       *)
(* left-edge probe stepped to while that leaf was being committed          *)
C26_Witness ==
    /\ last.op = "replace" /\ last.ret = 0 /\ ~oops /\ last.a[4]
    /\ \E x \in Tree : \E i \in 1..Len(znodes[x].zbranch) :
           /\ znodes[x].level = 0
           /\ znodes[x].zbranch[i].key = last.a[1]
           /\ Pos(znodes[x].zbranch[i].lnum, znodes[x].zbranch[i].offs,
                  znodes[x].zbranch[i].len) = last.a[3]

----------------------------------------------------------------------------
(* The root after tnc_delete.                                              *)

DeleteOps == {"remove", "remove_nm", "remove_range", "remove_ino"}

RootCollapsed ==
    zroot.znode # NULL =>
        /\ znodes[zroot.znode].level > 0 => child_cnt(znodes[zroot.znode]) >= 2
        /\ znodes[zroot.znode].parent = NULL

(* the level of the root before the step *)
RootLevel == IF zroot.znode = NULL THEN ImageAt(zroot).level ELSE znodes[zroot.znode].level

(* a step that lowered the root recorded the image of the old root, left  *)
(* the new root dirty and gave zroot the image of a znode of its level     *)
CollapseStep ==
    [][(~oops' /\ last'.ret = 0 /\ zroot'.znode # NULL /\ zroot.len # 0
          /\ znodes'[zroot'.znode].level < RootLevel)
         => /\ <<zroot.lnum, zroot.offs>> \in old_idx'
            /\ znodes'[zroot'.znode].dirty
            /\ (zroot'.len # 0 => \E idx \in FlashIdx :
                    /\ idx.lnum = zroot'.lnum /\ idx.offs = zroot'.offs
                    /\ idx.len = zroot'.len
                    /\ idx.level = znodes'[zroot'.znode].level)]_vars

(* C27: after a delete that returned 0, the root is not a znode of level   *)
(* > 0 with a single child, and its parent pointer is NULL                 *)
C27_RootCollapsed == (last.op \in DeleteOps /\ last.ret = 0 /\ ~oops) => RootCollapsed

----------------------------------------------------------------------------
(* The split of a znode that had an insert at slot 0.                      *)

(* the branch that refers to znode x: that of its parent, or zroot *)
BranchOf(x) ==
    IF znodes[x].parent = NULL THEN zroot
    ELSE znodes[znodes[x].parent].zbranch[znodes[x].iip + 1]

(* the full ALT leaves of the tree whose branch still holds an image and   *)
(* whose branch row no leaf has after the step, which added a leaf         *)
SplitAlt ==
    {x \in Tree :
        /\ znodes[x].level = 0 /\ znodes[x].alt /\ child_cnt(znodes[x]) = fanout
        /\ BranchOf(x).len # 0
        /\ last'.op \in {"add", "add_nm"} /\ last'.ret = 0
        /\ BranchRow(znodes[x]) \notin LeafRows(znodes', zroot')
        /\ Cardinality(LeafRows(znodes', zroot')) > Cardinality(LeafRows(znodes, zroot))}

(* no branch of the tree after the step refers to the index node at pos *)
Unreferenced(pos) ==
    /\ <<zroot'.lnum, zroot'.offs>> # pos
    /\ \A y \in Reach(znodes', zroot'.znode) :
           znodes'[y].level > 0 =>
               \A i \in 1..Len(znodes'[y].zbranch) :
                   <<znodes'[y].zbranch[i].lnum, znodes'[y].zbranch[i].offs>> # pos

(* C28: when a znode with ALT set is split while its parent branch (or     *)
(* zroot) holds an image with len != 0, the position of that image is in   *)
(* the old-index tree and the branch image is zeroed                       *)
C28_AltSplitRecorded ==
    [][~oops' =>
          \A x \in SplitAlt :
              /\ <<BranchOf(x).lnum, BranchOf(x).offs>> \in old_idx'
              /\ Unreferenced(<<BranchOf(x).lnum, BranchOf(x).offs>>)]_vars

----------------------------------------------------------------------------
(* The leaf-node cache and the position of a branch.                       *)

(* the leaf branches of the tree that hold a cached payload *)
Cached ==
    {zbr \in UNION {{znodes[x].zbranch[i] : i \in 1..Len(znodes[x].zbranch)} :
                    x \in LeafZnodes} : zbr.leaf # NoLeaf}

(* C29: the payload a leaf branch holds is a copy of the node at the       *)
(* branch's current lnum, offs and len, with the key of the branch         *)
C29_PayloadAtPosition ==
    ~oops => \A zbr \in Cached :
                 /\ zbr.leaf = FlashNode(zbr.lnum, zbr.offs)
                 /\ zbr.leaf.len = zbr.len
                 /\ zbr.leaf.key = zbr.key

(* the copy garbage collection made of an entry was looked up by name and  *)
(* is cached at the position the branch was moved to                       *)
C29_Witness ==
    /\ last.op = "lookup_nm" /\ last.ret = 0 /\ ~oops
    /\ \E zbr \in Cached : zbr.leaf = M_E1 /\ zbr.lnum = M_E1.lnum /\ zbr.offs = M_E1.offs

----------------------------------------------------------------------------
(* The scan of the log: replay_log_leb and the loop of                     *)
(* ubifs_replay_journal over the log LEBs.                                 *)

UBIFS_REF_NODE == 8
UBIFS_CS_NODE == 10

(* a node of the log as ubifs_scan returns it *)
CsNode(sqnum, offs, cmt_no) ==
    [type |-> UBIFS_CS_NODE, sqnum |-> sqnum, offs |-> offs, len |-> 32,
     cmt_no |-> cmt_no, lnum |-> 0, boffs |-> 0, jhead |-> 0]
RefNodeAt(sqnum, offs, lnum, boffs, jhead) ==
    [type |-> UBIFS_REF_NODE, sqnum |-> sqnum, offs |-> offs, len |-> 64,
     cmt_no |-> 0, lnum |-> lnum, boffs |-> boffs, jhead |-> jhead]
RefNode(sqnum, offs, lnum) == RefNodeAt(sqnum, offs, lnum, BudStart, lnum - 5)

ubifs_search_bud(rp, lnum) ==
    {i \in 1..Len(rp.buds) : rp.buds[i].lnum = lnum}

(* a validation that takes any reference to a LEB that has a bud for a    *)
(* repetition                                                              *)
validate_ref_any(rp, ref) ==
    IF \/ ref.jhead >= Geom.jhead_cnt \/ ref.lnum >= Geom.leb_cnt
       \/ ref.lnum < Geom.main_first \/ ref.boffs > Geom.leb_size
       \/ ref.boffs % Geom.min_io_size # 0
    THEN -EINVAL
    ELSE IF ubifs_search_bud(rp, ref.lnum) = {} THEN 0
    ELSE 1

validate_ref(rp, ref) ==
    IF \/ ref.jhead >= Geom.jhead_cnt \/ ref.lnum >= Geom.leb_cnt
       \/ ref.lnum < Geom.main_first \/ ref.boffs > Geom.leb_size
       \/ ref.boffs % Geom.min_io_size # 0
    THEN -EINVAL
    ELSE IF ubifs_search_bud(rp, ref.lnum) = {} THEN 0
    ELSE IF \E i \in ubifs_search_bud(rp, ref.lnum) :
                rp.buds[i].jhead = ref.jhead /\ rp.buds[i].start <= ref.boffs
    THEN 1
    ELSE -EINVAL

add_replay_bud(rp, lnum, offs, jhead, sqnum) ==
    [rp EXCEPT !.buds = Append(@, [lnum |-> lnum, start |-> offs, jhead |-> jhead,
                                   sqnum |-> sqnum])]

(* a loop that takes a node older than the commit start for the end of    *)
(* the log                                                                 *)
RECURSIVE log_nodes_end(_, _, _)
log_nodes_end(rp, nodes, i) ==
    IF i > Len(nodes) THEN [rp |-> rp, err |-> 0, at |-> 0]
    ELSE Let(nodes[i], LAMBDA snod:
         Let([rp EXCEPT !.max_sqnum = IF snod.sqnum > @ THEN snod.sqnum ELSE @], LAMBDA r1:
             IF snod.sqnum >= SQNUM_WATERMARK THEN [rp |-> rp, err |-> -EINVAL, at |-> i]
             ELSE IF snod.sqnum < rp.cs_sqnum THEN [rp |-> rp, err |-> 1, at |-> i]
             ELSE IF snod.type = UBIFS_REF_NODE
             THEN Let(validate_ref(r1, snod), LAMBDA v:
                      IF v = 1 THEN log_nodes_end(r1, nodes, i + 1)
                      ELSE IF v # 0 THEN [rp |-> r1, err |-> -EINVAL, at |-> i]
                      ELSE log_nodes_end(add_replay_bud(r1, snod.lnum, snod.boffs,
                                                        snod.jhead, snod.sqnum),
                                         nodes, i + 1))
             ELSE IF snod.type = UBIFS_CS_NODE
             THEN IF snod.offs # 0 THEN [rp |-> r1, err |-> -EINVAL, at |-> i]
                  ELSE log_nodes_end(r1, nodes, i + 1)
             ELSE [rp |-> r1, err |-> -EINVAL, at |-> i]))

(* a loop that raises c->max_sqnum before it checks the sqnum *)
RECURSIVE log_nodes_max(_, _, _)
log_nodes_max(rp, nodes, i) ==
    IF i > Len(nodes) THEN [rp |-> rp, err |-> 0, at |-> 0]
    ELSE Let(nodes[i], LAMBDA snod:
         Let([rp EXCEPT !.max_sqnum = IF snod.sqnum > @ THEN snod.sqnum ELSE @], LAMBDA r1:
             IF snod.sqnum >= SQNUM_WATERMARK THEN [rp |-> r1, err |-> -EINVAL, at |-> i]
             ELSE IF snod.sqnum < rp.cs_sqnum THEN [rp |-> r1, err |-> -EINVAL, at |-> i]
             ELSE IF snod.type = UBIFS_REF_NODE
             THEN Let(validate_ref(r1, snod), LAMBDA v:
                      IF v = 1 THEN log_nodes_max(r1, nodes, i + 1)
                      ELSE IF v # 0 THEN [rp |-> r1, err |-> -EINVAL, at |-> i]
                      ELSE log_nodes_max(add_replay_bud(r1, snod.lnum, snod.boffs,
                                                        snod.jhead, snod.sqnum),
                                         nodes, i + 1))
             ELSE IF snod.type = UBIFS_CS_NODE
             THEN IF snod.offs # 0 THEN [rp |-> r1, err |-> -EINVAL, at |-> i]
                  ELSE log_nodes_max(r1, nodes, i + 1)
             ELSE [rp |-> r1, err |-> -EINVAL, at |-> i]))

(* the list_for_each_entry loop of replay_log_leb from node i on; at is    *)
(* the node it left the loop at, 0 when it ran to the end                  *)
RECURSIVE log_nodes(_, _, _)
log_nodes(rp, nodes, i) ==
    IF i > Len(nodes) THEN [rp |-> rp, err |-> 0, at |-> 0]
    ELSE Let(nodes[i], LAMBDA snod:
         Let([rp EXCEPT !.max_sqnum = IF snod.sqnum > @ THEN snod.sqnum ELSE @], LAMBDA r1:
             IF snod.sqnum >= SQNUM_WATERMARK THEN [rp |-> rp, err |-> -EINVAL, at |-> i]
             ELSE IF snod.sqnum < rp.cs_sqnum THEN [rp |-> rp, err |-> -EINVAL, at |-> i]
             ELSE IF snod.type = UBIFS_REF_NODE
             THEN Let(validate_ref(r1, snod), LAMBDA v:
                      IF v = 1 THEN log_nodes(r1, nodes, i + 1)
                      ELSE IF v # 0 THEN [rp |-> r1, err |-> -EINVAL, at |-> i]
                      ELSE log_nodes(add_replay_bud(r1, snod.lnum, snod.boffs,
                                                    snod.jhead, snod.sqnum),
                                     nodes, i + 1))
             ELSE IF snod.type = UBIFS_CS_NODE
             THEN IF snod.offs # 0 THEN [rp |-> r1, err |-> -EINVAL, at |-> i]
                  ELSE log_nodes(r1, nodes, i + 1)
             ELSE [rp |-> r1, err |-> -EINVAL, at |-> i]))

(* replay_log_leb on the log LEB at position lpos, which holds nodes *)
replay_log_leb(rp, lpos, nodes) ==
    IF nodes = <<>> THEN [rp |-> rp, err |-> 1, at |-> 0]
    ELSE Let(nodes[1], LAMBDA snod:
         Let(IF rp.cs_sqnum = 0 THEN [rp EXCEPT !.cs_sqnum = snod.sqnum] ELSE rp, LAMBDA r1:
         Let(log_nodes(r1, nodes, 1), LAMBDA l:
         LET last_node == nodes[Len(nodes)] IN
             IF rp.cs_sqnum = 0 /\ snod.type # UBIFS_CS_NODE
             THEN [rp |-> rp, err |-> -EINVAL, at |-> 1]
             ELSE IF rp.cs_sqnum = 0 /\ snod.cmt_no # Geom.cmt_no
             THEN [rp |-> rp, err |-> -EINVAL, at |-> 1]
             ELSE IF snod.sqnum < r1.cs_sqnum THEN [rp |-> r1, err |-> 1, at |-> 1]
             ELSE IF snod.offs # 0 THEN [rp |-> r1, err |-> -EINVAL, at |-> 1]
             ELSE IF l.err # 0 THEN l
             ELSE [rp |-> [l.rp EXCEPT !.lhead =
                              <<lpos, ALIGN(last_node.offs + last_node.len,
                                            Geom.min_io_size)>>],
                   err |-> 0, at |-> 0])))

(* one pass of the loop of ubifs_replay_journal over the log LEBs; the     *)
(* ghost arguments are the position of the LEB, the node the scan stopped  *)
(* at and whether that node is older than the commit start                 *)
ReplayLogLeb ==
    /\ replay.phase = "log" /\ ~oops
    /\ LET nodes == replay.log[replay.lpos] IN
       \E r \in {replay_log_leb(replay, replay.lpos, nodes)} :
           /\ replay' =
                 IF r.err < 0 THEN ReplayOut(r.rp, r.err)
                 ELSE IF r.err = 1 \/ replay.lpos = Geom.log_lebs
                 THEN [r.rp EXCEPT !.phase = IF r.rp.buds = <<>> THEN "apply" ELSE "buds",
                                   !.next = 1]
                 ELSE [r.rp EXCEPT !.lpos = @ + 1]
           /\ last' = [op |-> "replay_log_leb",
                       a |-> <<replay.lpos, r.at,
                               r.at # 0 /\ nodes[IF r.at = 0 THEN 1 ELSE r.at].sqnum
                                              < r.rp.cs_sqnum>>,
                       ret |-> r.err]
    /\ UNCHANGED <<znodes, zroot, old_idx, oops, dirt, dirty_zn_cnt, clean_zn_cnt, map, ops, tnc_mutex, thr>>

(* The logs a mount may find: the commit start node and the reference      *)
(* nodes of the buds, followed by nothing, by what an earlier commit left  *)
(* in a log LEB that was unmapped but not erased, or by an older node      *)
(* inside a LEB.                                                           *)
LogCs == CsNode(205, 0, Geom.cmt_no)
LogRef(i, lnum) == RefNode(RefSqnum(lnum), 64 * i, lnum)
LogOld(i) == RefNode(150 + i, 64 * i, 7)
(* a reference node of the live log for bud lnum at boffs of head jhead *)
LogAt(i, lnum, boffs, jhead) == RefNodeAt(RefSqnum(lnum) + 2, 64 * i, lnum, boffs, jhead)

Logs ==
    {<<(<<LogCs, LogRef(1, 6), LogRef(2, 7)>>), (<<>>)>>,
     <<(<<LogCs, LogRef(1, 6)>>), (<<LogRef(0, 7)>>)>>,
     <<(<<LogCs, LogRef(1, 6), LogRef(2, 7)>>), (<<LogOld(0), LogOld(1)>>)>>,
     <<(<<LogCs, LogRef(1, 6)>>), (<<LogOld(0)>>)>>,
     <<(<<LogCs, LogRef(1, 6), LogOld(2)>>), (<<>>)>>,
     <<(<<LogCs, LogRef(1, 6)>>), (<<LogRef(0, 7), LogOld(1)>>)>>,
     <<(<<LogCs, LogRef(1, 6), LogRef(2, 6), LogRef(3, 7)>>), (<<>>)>>,
     <<(<<LogCs, LogRef(1, 7), LogRef(2, 6)>>), (<<LogAt(0, 7, BudStart + 512, 2)>>)>>,
     <<(<<LogCs, LogRef(1, 6), LogRef(2, 7)>>), (<<LogAt(0, 6, BudStart - 512, 1)>>)>>,
     <<(<<LogCs, LogRef(1, 6), LogAt(2, 6, BudStart, 2), LogRef(3, 7)>>), (<<>>)>>,
     <<(<<LogCs, LogRef(1, 6), LogAt(2, 7, BudStart, 3)>>), (<<>>)>>,
     <<(<<LogCs, LogRef(1, 6), LogAt(2, 7, BudStart + 4, 2)>>), (<<>>)>>}

(* the buds the live part of a log refers to *)
Referred(log) ==
    {n.lnum : n \in {x \in UNION {{log[l][i] : i \in 1..Len(log[l])} : l \in 1..Len(log)} :
                        x.type = UBIFS_REF_NODE /\ x.sqnum >= 205 /\ x.boffs = BudStart}}

InitLog ==
    /\ znodes = <<>>
    /\ \E r \in Roots :
          /\ zroot = Zbranch(<<0, 0, 0>>, r.lnum, r.offs, r.len, NULL)
          /\ map = MapOfImage(r)
    /\ old_idx = {}
    /\ oops = FALSE
    /\ NoAccount
    /\ last = [op |-> "mount", a |-> <<>>, ret |-> 0]
    /\ ops = 0
    /\ tnc_mutex = 0
    /\ thr = NoCallers
    /\ \E log \in Logs : \E head \in [1..MaxWrites -> Referred(log)] :
          replay = [NoReplay EXCEPT
                       !.phase = "log",
                       !.log = log,
                       !.scan = [l \in BudLebs |-> BudNodes(head, l)]]

NextLog == ReplayLogLeb \/ ReplayBud \/ ApplyEntry \/ ReplayDone

SpecLog == InitLog /\ [][NextLog]_vars

(* the scan of a log LEB stopped at a node older than the commit start *)
MetOld == last.op = "replay_log_leb" /\ last.a[3]

(* C30 as stated: a scanned node with sqnum < cs_sqnum, the first of a log *)
(* LEB or a later one, ends the log scan without error and the replay goes *)
(* on with the buds collected so far                                       *)
C30_OldEndsLog ==
    MetOld => last.ret = 1 /\ replay.phase \in {"buds", "apply"}

(* C30: a node with sqnum < cs_sqnum ends the log scan without error when  *)
(* it is the first node of a log LEB, and the replay goes on with the buds *)
(* collected so far; when it is a later node of the LEB, the scan fails    *)
(* with -EINVAL and the replay is abandoned                                *)
C30_OldFirstEndsLog ==
    MetOld =>
        IF last.a[2] = 1
        THEN /\ last.ret = 1
             /\ replay.phase = "buds"
             /\ replay.buds # <<>>
             /\ \A i \in 1..Len(replay.buds) : replay.buds[i].sqnum >= replay.cs_sqnum
        ELSE /\ last.ret = -EINVAL
             /\ replay.phase = "done" /\ replay.err = -EINVAL
             /\ replay.buds = <<>>

C30_Witness == MetOld /\ last.a[2] > 1 /\ last.ret = -EINVAL

----------------------------------------------------------------------------
(* C31: the reference nodes of the log and the list of buds to replay      *)

(* the nodes of the log LEBs 1..n in the order scanned *)
RECURSIVE Flat(_, _)
Flat(log, n) == IF n = 0 THEN <<>> ELSE Flat(log, n - 1) \o log[n]

(* the nodes the log scan has dealt with, the one it failed at excluded *)
LogScanned ==
    Flat(replay.log, last.a[1] - 1) \o
    (IF last.ret = 0 THEN replay.log[last.a[1]]
     ELSE SubSeq(replay.log[last.a[1]], 1, last.a[2] - 1))

IsRef(n) == n.type = UBIFS_REF_NODE
ScannedRefs == SelectSeq(LogScanned, IsRef)

(* the geometry checks that make a reference node valid *)
ValidRef(ref) ==
    /\ ref.jhead < Geom.jhead_cnt /\ ref.lnum < Geom.leb_cnt
    /\ ref.lnum >= Geom.main_first /\ ref.boffs <= Geom.leb_size
    /\ ref.boffs % Geom.min_io_size = 0

BudOfRef(ref) ==
    [lnum |-> ref.lnum, start |-> ref.boffs, jhead |-> ref.jhead, sqnum |-> ref.sqnum]

(* the references that found no bud for their LEB, in arrival order *)
RECURSIVE FirstRefs(_, _)
FirstRefs(refs, i) ==
    IF i > Len(refs) THEN <<>>
    ELSE IF \E j \in 1..(i - 1) : refs[j].lnum = refs[i].lnum
    THEN FirstRefs(refs, i + 1)
    ELSE <<BudOfRef(refs[i])>> \o FirstRefs(refs, i + 1)

(* ref agrees with the earlier reference to its LEB *)
Agrees(first, ref) == first.jhead = ref.jhead /\ first.boffs <= ref.boffs

FirstOf(refs, ref) ==
    refs[CHOOSE j \in 1..Len(refs) :
            /\ refs[j].lnum = ref.lnum
            /\ \A k \in 1..(j - 1) : refs[k].lnum # ref.lnum]

(* the log scan went on over the references it has dealt with *)
RefsKept ==
    (last.op = "replay_log_leb" /\ last.ret \in {0, 1}) =>
        /\ replay.buds = FirstRefs(ScannedRefs, 1)
        /\ \A i \in 1..Len(ScannedRefs) :
              /\ ValidRef(ScannedRefs[i])
              /\ Agrees(FirstOf(ScannedRefs, ScannedRefs[i]), ScannedRefs[i])

(* the node the log scan failed at *)
FailedAt == replay.log[last.a[1]][last.a[2]]

(* the log scan failed at a valid reference node *)
RefRefused ==
    /\ last.op = "replay_log_leb" /\ last.ret < 0 /\ ~last.a[3]
    /\ IsRef(FailedAt) /\ ValidRef(FailedAt) /\ FailedAt.sqnum < SQNUM_WATERMARK

RefsRefused ==
    RefRefused =>
        /\ last.ret = -EINVAL /\ replay.phase = "done" /\ replay.err = -EINVAL
        /\ \E j \in 1..Len(ScannedRefs) : ScannedRefs[j].lnum = FailedAt.lnum
        /\ ~Agrees(FirstOf(ScannedRefs, FailedAt), FailedAt)

OneBudPerLeb ==
    \A i, j \in 1..Len(replay.buds) : replay.buds[i].lnum = replay.buds[j].lnum => i = j

(* replay_buds takes the buds from the head of the list *)
BudsInOrder ==
    [][last'.op = "replay_bud" /\ replay.phase = "buds" =>
          /\ last'.a[1] = Head(replay.buds).lnum
          /\ last'.ret = 0 => replay'.buds = Tail(replay.buds)]_vars

(* C31: a valid reference node whose LEB has no bud enqueues the bud      *)
(* (lnum, offs, jhead, sqnum); one whose LEB has a bud of the same jhead   *)
(* that starts at or before offs is ignored; any other makes the replay    *)
(* fail with -EINVAL; so the list never holds two buds for one LEB and the *)
(* buds are replayed in the order their references arrived                 *)
C31_RefsToBuds ==
    [](RefsKept /\ RefsRefused /\ OneBudPerLeb) /\ BudsInOrder

C31_Witness ==
    /\ last.op = "replay_log_leb" /\ last.ret = 0 /\ Len(replay.buds) = 2
    /\ Len(ScannedRefs) = 3
    /\ ScannedRefs[3].boffs > BudStart

RefusedEarlier == RefRefused /\ FailedAt.boffs < BudStart

----------------------------------------------------------------------------
(* C32: the space accounting of a bud scan.  The buds hold every kind of   *)
(* node a journal head writes, one behind the other from the bud's start.  *)

MaxUsed == 2

NodeKinds == {"ino", "ino0", "data", "dent", "dent0", "xent", "xent0", "trun"}

KindNode(kind, lnum, offs) ==
    CASE kind = "ino" -> Ino(lnum, offs, 2)
      [] kind = "ino0" -> [Ino(lnum, offs, 2) EXCEPT !.nlink = 0]
      [] kind = "data" -> Data(lnum, offs, 1, 1)
      [] kind = "dent" -> Dent(lnum, offs, 1, 5, <<2>>, 2)
      [] kind = "dent0" -> Dent(lnum, offs, 1, 5, <<1>>, 0)
      [] kind = "xent" -> Xent(lnum, offs, 1, 3, <<7>>, 3)
      [] kind = "xent0" -> Xent(lnum, offs, 1, 3, <<7>>, 0)
      [] OTHER -> Trun(lnum, offs, 1, 4 * UBIFS_BLOCK_SIZE, UBIFS_BLOCK_SIZE)

(* the nodes of the kinds given, written one behind the other from offs *)
RECURSIVE KindNodes(_, _, _, _)
KindNodes(kinds, lnum, offs, k) ==
    IF kinds = <<>> THEN <<>>
    ELSE Let(Written(KindNode(Head(kinds), lnum, offs), k), LAMBDA n:
             <<n>> \o KindNodes(Tail(kinds), lnum, offs + ALIGN(n.len, 8), k + 1))

KindSeqs(n) == UNION {[1..i -> NodeKinds] : i \in 0..n}

InitUsed ==
    /\ znodes = <<>>
    /\ zroot = Zbranch(<<0, 0, 0>>, IdxRoot.lnum, IdxRoot.offs, IdxRoot.len, NULL)
    /\ map = MapOfImage(IdxRoot)
    /\ old_idx = {}
    /\ oops = FALSE
    /\ NoAccount
    /\ last = [op |-> "mount", a |-> <<>>, ret |-> 0]
    /\ ops = 0
    /\ tnc_mutex = 0
    /\ thr = NoCallers
    /\ \E k6 \in KindSeqs(MaxUsed), k7 \in KindSeqs(1) :
          replay = [NoReplay EXCEPT
                       !.phase = "buds",
                       !.buds = <<Bud(6), Bud(7)>>,
                       !.scan = [l \in BudLebs |->
                                    IF l = 6 THEN KindNodes(k6, 6, BudStart, 1)
                                    ELSE KindNodes(k7, 7, BudStart, MaxUsed + 2)]]

SpecUsed == InitUsed /\ [][NextReplay]_vars

(* the nodes of a bud that are not deletions *)
Counted(n) ==
    \/ key_type(n.key) = UBIFS_INO_KEY /\ n.nlink # 0
    \/ key_type(n.key) = UBIFS_DATA_KEY
    \/ key_type(n.key) \in {UBIFS_DENT_KEY, UBIFS_XENT_KEY} /\ n.inum # 0

RECURSIVE UsedBy(_)
UsedBy(nodes) ==
    IF nodes = <<>> THEN 0
    ELSE (IF Counted(Head(nodes)) THEN ALIGN(Head(nodes).len, 8) ELSE 0) + UsedBy(Tail(nodes))

(* where the scan of the bud r refers to ended *)
Endpt(r) ==
    LET nodes == replay.scan[r.lnum]
    IN  IF nodes = <<>> THEN r.offs
        ELSE nodes[Len(nodes)].offs + ALIGN(nodes[Len(nodes)].len, 8)

RefEntries == {i \in 1..Len(replay.tree) : replay.tree[i].flags = REPLAY_REF}

(* C32: the reference entry of a scanned bud carries dirty = endpt - offs  *)
(* - used and free = leb_size - endpt, with used the sum of ALIGN(len, 8)  *)
(* over the nodes that are not deletions; dirty >= 0 and free + dirty +    *)
(* used = leb_size - offs                                                  *)
C32_BudSpace ==
    \A i \in RefEntries :
        Let(replay.tree[i], LAMBDA r:
        Let(UsedBy(replay.scan[r.lnum]), LAMBDA used:
            /\ r.dirty = Endpt(r) - r.offs - used
            /\ r.free = Geom.leb_size - Endpt(r)
            /\ r.dirty >= 0
            /\ r.free + r.dirty + used = Geom.leb_size - r.offs))

C32_Witness ==
    \E i \in RefEntries :
        Let(replay.scan[replay.tree[i].lnum], LAMBDA nodes:
            /\ Len(nodes) = 2
            /\ key_type(nodes[1].key) = UBIFS_INO_KEY /\ nodes[1].nlink = 0
            /\ key_type(nodes[2].key) = UBIFS_XENT_KEY /\ nodes[2].inum # 0
            /\ replay.tree[i].dirty = ALIGN(UBIFS_INO_NODE_SZ, 8))

----------------------------------------------------------------------------
(* C33, C39: the lprops of a bud LEB when its reference entry is applied.  *)
(* The bud of LEB 6 starts at BudStart, behind committed data, or at       *)
(* offset 0; the lprops read at mount show the LEB as the last commit left *)
(* it.                                                                     *)

LpSizes == {0, 1024, 2048, Geom.leb_size}

LpStates ==
    {[free |-> f, dirty |-> d, taken |-> FALSE, flags |-> fl] :
        f \in LpSizes, d \in LpSizes, fl \in {{}, {"LPROPS_DIRTY"}, {"LPROPS_FREE"}}}

LpInRange(lp) == lp.free >= 0 /\ lp.dirty >= 0 /\ lp.free + lp.dirty <= Geom.leb_size

InitLprops ==
    /\ znodes = <<>>
    /\ zroot = Zbranch(<<0, 0, 0>>, IdxRoot.lnum, IdxRoot.offs, IdxRoot.len, NULL)
    /\ map = MapOfImage(IdxRoot)
    /\ old_idx = {}
    /\ oops = FALSE
    /\ NoAccount
    /\ last = [op |-> "mount", a |-> <<>>, ret |-> 0]
    /\ ops = 0
    /\ tnc_mutex = 0
    /\ thr = NoCallers
    /\ \E start \in {0, BudStart}, lp \in {x \in LpStates : LpInRange(x)},
          k6 \in KindSeqs(1) :
          replay = [NoReplay EXCEPT
                       !.phase = "buds",
                       !.buds = <<[Bud(6) EXCEPT !.start = start], Bud(7)>>,
                       !.lprops[6] = lp,
                       !.scan = [l \in BudLebs |->
                                    IF l = 6 THEN KindNodes(k6, 6, start, 1) ELSE <<>>]]

SpecLprops == InitLprops /\ [][NextReplay]_vars

(* the reference entry apply_replay_tree is at *)
AtRef ==
    /\ replay.phase = "apply" /\ replay.next <= Len(replay.tree)
    /\ replay.tree[replay.next].flags = REPLAY_REF

(* the dirty space lprops show for the LEB of the bud r, less what they    *)
(* show as used or dirty when the bud starts at offset 0 and they do not   *)
(* show the LEB empty                                                      *)
PriorDirty(lp, r) ==
    IF r.offs = 0 /\ ~(lp.free = Geom.leb_size /\ lp.dirty = 0)
    THEN lp.dirty - (Geom.leb_size - lp.free)
    ELSE lp.dirty

(* C33: applying a reference entry sets the lprops of the bud LEB to the   *)
(* replayed free space, the replayed dirty space plus the prior dirty      *)
(* space, and the flags it had with TAKEN added; the lprops of every other *)
(* LEB stay                                                                *)
C33_BudLprops ==
    [][(AtRef /\ last'.op = "replay") =>
          Let(replay.tree[replay.next], LAMBDA r:
              /\ last'.ret = 0
              /\ replay'.lprops[r.lnum].free = r.free
              /\ replay'.lprops[r.lnum].dirty = r.dirty + PriorDirty(replay.lprops[r.lnum], r)
              /\ replay'.lprops[r.lnum].taken
              /\ replay'.lprops[r.lnum].flags = replay.lprops[r.lnum].flags
              /\ \A l \in BudLebs \ {r.lnum} : replay'.lprops[l] = replay.lprops[l])]_vars

(* the reference entries that have been applied *)
AppliedRefs == {i \in RefEntries : i < replay.next /\ replay.phase = "apply"}

C33_Witness ==
    \E i \in AppliedRefs :
        Let(replay.tree[i], LAMBDA r:
            /\ r.offs = 0 /\ r.dirty > 0
            /\ replay.lprops[r.lnum].taken
            /\ replay.lprops[r.lnum].flags = {"LPROPS_DIRTY"}
            /\ replay.lprops[r.lnum].dirty = r.dirty)

(* C39: the free and dirty space a reference entry passes to the lprops    *)
(* update are in range: free >= 0, dirty >= 0, free + dirty <= leb_size    *)
C39_LpropsInRange ==
    \A i \in AppliedRefs : LpInRange(replay.lprops[replay.tree[i].lnum])

----------------------------------------------------------------------------
(* C34: c->max_sqnum and the nodes the scans of the log and of the buds    *)
(* examine.  c->max_sqnum starts at 0 or at the sqnum of the master node.  *)

LogLate == <<(<<LogCs, LogRef(1, 6), RefNode(SQNUM_WATERMARK, 128, 7)>>), (<<>>)>>
LogBadCs == <<(<<CsNode(205, 0, Geom.cmt_no + 1), LogRef(1, 6), LogRef(2, 7)>>), (<<>>)>>

SqnumLogs == {log \in Logs : log[2] # <<>>} \cup {LogLate, LogBadCs}

(* the nodes of a bud, the node of write late carrying a sqnum at the     *)
(* watermark                                                               *)
LateNodes(head, lnum, late) ==
    LET nodes == BudNodes(head, lnum)
    IN  [i \in 1..Len(nodes) |->
            IF nodes[i].sqnum = JournalSqnum + late
            THEN [nodes[i] EXCEPT !.sqnum = SQNUM_WATERMARK]
            ELSE nodes[i]]

InitSqnum ==
    /\ znodes = <<>>
    /\ zroot = Zbranch(<<0, 0, 0>>, IdxRoot.lnum, IdxRoot.offs, IdxRoot.len, NULL)
    /\ map = MapOfImage(IdxRoot)
    /\ old_idx = {}
    /\ oops = FALSE
    /\ NoAccount
    /\ last = [op |-> "mount", a |-> <<>>, ret |-> 0]
    /\ ops = 0
    /\ tnc_mutex = 0
    /\ thr = NoCallers
    /\ \E log \in SqnumLogs : \E head \in [1..MaxWrites -> Referred(log)] :
       \E late \in {0, 2, MaxWrites}, mst \in {0, 208} :
          replay = [NoReplay EXCEPT
                       !.phase = "log",
                       !.log = log,
                       !.max_sqnum = mst,
                       !.scan = [l \in BudLebs |-> LateNodes(head, l, late)]]

SpecSqnum == InitSqnum /\ [][NextLog]_vars

(* the scan of the log has just failed at a node inside the loop over the  *)
(* nodes of the LEB, not in the checks of the first node before it         *)
FailedInLoop ==
    /\ last.op = "replay_log_leb" /\ last.ret < 0
    /\ ~(/\ last.a[2] = 1
         /\ \/ last.a[1] = 1 /\ FailedAt.type # UBIFS_CS_NODE
            \/ last.a[1] = 1 /\ FailedAt.cmt_no # Geom.cmt_no
            \/ FailedAt.offs # 0)

(* the node the scan of the bud at the head of the list stops at, 0 when   *)
(* it takes them all                                                       *)
BudStop ==
    Let(Head(replay.buds), LAMBDA b:
    Let(replay_snods(replay, b.lnum, replay.scan[b.lnum], 0), LAMBDA r:
        IF r.err = 0 THEN 0 ELSE Len(r.rp.tree) - Len(replay.tree) + 1))

BudStep == replay.phase = "buds" /\ replay.buds # <<>> /\ last'.op = "replay_bud"

(* the nodes the scan of the bud examines *)
BudExamined ==
    Let(replay.scan[Head(replay.buds).lnum], LAMBDA nodes:
        {nodes[i] : i \in {j \in 1..Len(nodes) : BudStop = 0 \/ j <= BudStop}})

(* C34 as stated: c->max_sqnum is raised before the checks of the sqnum,   *)
(* so it is at least the sqnum of every node a scan examined, a rejected   *)
(* node included                                                           *)
C34_MaxOfExamined ==
    /\ [](last.op = "replay_log_leb" =>
             /\ \A i \in 1..Len(LogScanned) : LogScanned[i].sqnum <= replay.max_sqnum
             /\ FailedInLoop => FailedAt.sqnum <= replay.max_sqnum)
    /\ [][BudStep => \A n \in BudExamined : n.sqnum <= replay'.max_sqnum]_vars

(* C34: c->max_sqnum never decreases and is raised to a node's sqnum after *)
(* the checks of the sqnum (the watermark in both scans, sqnum < cs_sqnum  *)
(* in the log scan) and before the node is looked at: it is at least the   *)
(* sqnum of every node a scan took and of a node rejected for its type,    *)
(* reference or content, but not of a node rejected at the watermark       *)
C34_MaxOfAccepted ==
    /\ [](last.op = "replay_log_leb" =>
             /\ \A i \in 1..Len(LogScanned) : LogScanned[i].sqnum <= replay.max_sqnum
             /\ FailedInLoop =>
                   IF FailedAt.sqnum >= SQNUM_WATERMARK
                   THEN replay.max_sqnum < FailedAt.sqnum
                   ELSE FailedAt.sqnum <= replay.max_sqnum)
    /\ [][/\ replay'.max_sqnum >= replay.max_sqnum
          /\ BudStep =>
                \A n \in BudExamined :
                    IF n.sqnum >= SQNUM_WATERMARK
                    THEN replay'.max_sqnum < n.sqnum
                    ELSE n.sqnum <= replay'.max_sqnum]_vars

C34_Witness ==
    /\ last.op = "replay_bud" /\ last.ret = -EINVAL /\ replay.phase = "done"
    /\ \E i \in 1..Len(replay.scan[last.a[1]]) :
          replay.scan[last.a[1]][i].sqnum = SQNUM_WATERMARK
    /\ replay.max_sqnum > 208 /\ replay.max_sqnum < SQNUM_WATERMARK

----------------------------------------------------------------------------
(* C35: no caller reads a payload of the leaf node cache that another      *)
(* caller has freed                                                        *)
C35_NoFreedPayloadRead == last.op = "read" => ~last.a[4]

----------------------------------------------------------------------------
(* Name order among the branches of one hashed key.                        *)

(* the leaf branches of the tree of st in order, unloaded leaves included *)
RowOf(zn, root) ==
    IF root.znode = NULL THEN ImageRow(ImageAt(root), 1)
    ELSE ZnodeRow(zn, root.znode, 1)

TreeRow(st) == RowOf(st.zn, st.zroot)

NameOf(br) == FlashNode(br.lnum, br.offs).name

(* branches that share a hashed key are in strictly increasing name order *)
NamesAscend(row) ==
    \A i \in 1..Len(row) : \A j \in (i + 1)..Len(row) :
        (row[i].br.key = row[j].br.key /\ is_hash_key(row[i].br.key)) =>
            name_cmp(NameOf(row[i].br), NameOf(row[j].br)) = NAME_LESS

(* the index in row of slot n of leaf zn, 0 when it is before the row *)
RowIndex(row, zn, n) ==
    IF n >= 0 THEN CHOOSE i \in 1..Len(row) : row[i].zn = zn /\ row[i].n = n
    ELSE (CHOOSE i \in 1..Len(row) : row[i].zn = zn /\ row[i].n = 0) - 1

(* position p of row is immediately before where (key, nm) belongs *)
BelongsAfter(row, p, key, nm) ==
    \A i \in 1..Len(row) :
        LET c == keys_cmp(row[i].br.key, key)
        IN  IF c # 0 THEN (c < 0) <=> (i <= p)
            ELSE (name_cmp(NameOf(row[i].br), nm) = NAME_LESS) <=> (i <= p)

(* a collision resolution for id that does not find the name returns the  *)
(* position immediately before where the name belongs                      *)
NotFoundBefore(id) ==
    Let(lookup_level0(St, id[1]), LAMBDA l:
    Let(resolve_collision(l.st, id[1], l.zn, l.n, id[2]), LAMBDA rc:
        (l.ret = 1 /\ rc.ret = 0) =>
            BelongsAfter(TreeRow(rc.st), RowIndex(TreeRow(rc.st), rc.zn, rc.n),
                         id[1], id[2])))

(* C36: after any sequence of add_nm and remove_nm outside replay, in the  *)
(* in-order traversal of the leaves the branches sharing one hashed key    *)
(* appear in strictly increasing name order, so no two branches have the   *)
(* same key and the same name; a not-found collision resolution returns    *)
(* the position immediately before where the name belongs                  *)
C36_NamesInOrder ==
    ~oops => /\ NamesAscend(TreeRow(St))
             /\ \A id \in HashedIdents : NotFoundBefore(id)

----------------------------------------------------------------------------
(* Separator bounds.                                                       *)

(* the keys of the subtree below branch zbr of a non-leaf znode *)
SubtreeKeys(zn, zbr) ==
    Let(IF zbr.znode = NULL THEN ImageRow(ImageAt(zbr), 1)
        ELSE ZnodeRow(zn, zbr.znode, 1), LAMBDA row:
        {row[i].br.key : i \in 1..Len(row)})

(* branch i of znode x bounds the keys below it from below, branch i + 1   *)
(* bounds them from above                                                  *)
Separates(zn, x, i) ==
    \A k \in SubtreeKeys(zn, zn[x].zbranch[i]) :
        /\ keys_cmp(zn[x].zbranch[i].key, k) <= 0
        /\ i < Len(zn[x].zbranch) =>
              IF is_hash_key(k) THEN keys_cmp(k, zn[x].zbranch[i + 1].key) <= 0
              ELSE keys_cmp(k, zn[x].zbranch[i + 1].key) < 0

(* C37: after every completed operation, for every non-leaf znode and      *)
(* every slot i, the key of branch i is <= every key in the subtree of     *)
(* child i, and every key in that subtree is <= the key of branch i + 1    *)
(* when it exists (strictly smaller for non-hashed keys)                   *)
C37_SeparatorBounds ==
    ~oops =>
        \A x \in Tree : znodes[x].level # 0 =>
            \A i \in 1..Len(znodes[x].zbranch) : Separates(znodes, x, i)

----------------------------------------------------------------------------
(* Dirty space of the leaf nodes.                                          *)

(* the LEBs that hold leaf nodes *)
LeafLebs == DOMAIN dirt \ {x.lnum : x \in FlashIdx}

(* the bytes of LEB l that the leaf branches of row refer to *)
RECURSIVE RowBytes(_, _)
RowBytes(row, l) ==
    IF row = <<>> THEN 0
    ELSE (IF Head(row).br.lnum = l THEN Head(row).br.len ELSE 0) + RowBytes(Tail(row), l)

Branches(row) == [i \in 1..Len(row) |-> row[i].br]

(* the position of the node an add, add_nm or replace was given *)
Given(l) ==
    IF l.op = "add" THEN l.a[2]
    ELSE IF l.op \in {"add_nm", "replace"} THEN l.a[3]
    ELSE NotFound

(* a successful operation of those that charge dirty space has returned *)
Charging(l, o) ==
    /\ l.op \in {"add", "add_nm", "replace", "remove", "remove_nm", "remove_range"}
    /\ l.ret = 0 /\ ~o

(* what the leaf branches refer to in LEB l and the dirty space charged to *)
(* it grow together by the node the operation was given: before is the     *)
(* row of leaf branches before the operation, after the row it leaves      *)
Conserved(l, before, after) ==
    dirt'[l] + RowBytes(after, l) =
        dirt[l] + RowBytes(before, l) +
        (IF Given(last')[1] = l THEN Given(last')[3] ELSE 0)

(* a replace whose old position no branch of the key holds leaves the      *)
(* leaf branches as they are                                               *)
ReplaceMissed(before, after) ==
    (last'.op = "replace" /\
     \A i \in 1..Len(before) :
         ~(before[i].br.key = last'.a[1] /\ before[i].br.lnum = last'.a[2][1]
                                        /\ before[i].br.offs = last'.a[2][2]))
    => Branches(after) = Branches(before)

(* C38: over successful add, add_nm, replace, remove, remove_nm and         *)
(* remove_range, a leaf node is charged to the dirty space of its LEB       *)
(* exactly when its branch is overwritten or removed, once, and never       *)
(* while a branch refers to it; a replace whose old position is not found   *)
(* charges the new node once and leaves the tree unchanged                  *)
C38_LeafDirtConserved ==
    [][Charging(last', oops') =>
          Let(RowOf(znodes, zroot), LAMBDA before:
          Let(RowOf(znodes', zroot'), LAMBDA after:
              /\ \A l \in LeafLebs : Conserved(l, before, after)
              /\ ReplaceMissed(before, after)))]_vars

(* a replace that did not find the old position was charged, after a       *)
(* range of data nodes was removed and charged                             *)
C38_Witness ==
    /\ last.op = "replace" /\ last.ret = 0 /\ ~oops
    /\ \A i \in 1..Len(RowOf(znodes, zroot)) :
           PosOf(RowOf(znodes, zroot)[i].br) # last.a[3]
    /\ dirt[last.a[3][1]] >= last.a[3][3] + 2 * N_D10.len

----------------------------------------------------------------------------
(* The znode counters.                                                     *)

(* the znodes in memory with the DIRTY flag, and those without it *)
DirtyZnodes(zn) == {x \in DOMAIN zn : zn[x].dirty}
CleanZnodes(zn) == {x \in DOMAIN zn : ~zn[x].dirty}

(* no znode is being committed or waits for the commit to free it *)
NoCommit(zn) == \A x \in DOMAIN zn : ~zn[x].cow /\ ~zn[x].cnext /\ ~zn[x].obsolete

(* C40: in a run of successful operations without a commit in progress,    *)
(* after every operation dirty_zn_cnt is the number of znodes in memory    *)
(* with DIRTY set and clean_zn_cnt the number of loaded znodes without it   *)
C40_CountersTrackCache ==
    (~oops /\ NoCommit(znodes)) =>
        /\ dirty_zn_cnt = Cardinality(DirtyZnodes(znodes))
        /\ clean_zn_cnt = Cardinality(CleanZnodes(znodes))

(* the root of the two-level index was emptied down to one leaf, which     *)
(* was loaded, dirtied and made the root                                   *)
C40_Witness ==
    /\ ~oops /\ NoCommit(znodes) /\ last.ret = 0
    /\ <<IdxRoot.lnum, IdxRoot.offs>> \in old_idx
    /\ zroot.znode # NULL /\ znodes[zroot.znode].level = 0
    /\ zroot.lnum = IdxLeafA.lnum /\ zroot.offs = IdxLeafA.offs
    /\ dirty_zn_cnt = 1 /\ clean_zn_cnt = 0

====
